---- MODULE Spec2Model ----
(***************************************************************************)
(* A model of the analytics aggregation engine of                          *)
(* src/server/services/analytics_service.py (class AnalyticsService) and   *)
(* of the analytics endpoints of src/server/main.py.                       *)
(*                                                                         *)
(* Every worker process owns one AnalyticsService: its backend mode, its   *)
(* string-hash seed and its in-process fallback storage.  The Redis store  *)
(* is shared by all workers.  A handler that talks to Redis is a sequence  *)
(* of store commands; each command is one step, so that a backend failure, *)
(* a clock tick or another worker can fall between two commands.          *)
(*                                                                         *)
(* Units: time in seconds; response times in halves of a millisecond       *)
(* (120.5 ms is 241), which floats hold exactly; success_rate in tenths of *)
(* a percent (100.0 is 1000).                                              *)
(***************************************************************************)
EXTENDS Integers, Sequences, FiniteSets, TLC

VARIABLES
    now,      \* the wall clock, datetime.now(), in seconds
    up,       \* whether a Redis command issued now succeeds
    redis,    \* the shared keyed store, one keyspace per key prefix
    mode,     \* per worker: "uninit", "persistent" (redis_client set), "degraded" (None)
    seed,     \* per worker: the interpreter's string-hash seed
    mem,      \* per worker: _memory_storage
    pc,       \* per worker: the position inside the running handler
    loc,      \* per worker: the running handler's local variables
    ret,      \* per worker: how the last handler ended, as its caller saw it
    nTQ,      \* history: track_query calls begun
    nTG,      \* history: track_content_gap calls begun
    hist,     \* history: the track calls that returned normally, in order
    llm       \* the LLMService: its two clients and the running generate_response

vars == <<now, up, redis, mode, seed, mem, pc, loc, ret, nTQ, nTG, hist, llm>>

(***************************************************************************)
(* Program constants.                                                      *)
(***************************************************************************)
DAY == 86400
QUERY_TTL == 86400
GAP_TTL == 86400 * 7
DAILY_TTL == 86400 * 30
SAMPLE_TTL == 86400
SAMPLE_LAST == 999
SUMMARY_DAYS == 7
DEFAULT_TRENDS_DAYS == 7
DEFAULT_LIMIT == 10

(***************************************************************************)
(* Bounds of the model.                                                    *)
(***************************************************************************)
MaxDay == 1
MaxTQ == 2
MaxTG == 2
MaxTrendDays == 1
MaxFaultCalls == 2
MaxPairCalls == 2
MaxWeekDay == 7
MaxWeekTQ == 1
MaxTopTQ == 3
MaxLimit == 2
MaxRankTG == 3
MaxFullTQ == 2
MaxSlideDay == 7
MaxSlideTG == 2
MaxRollTQ == 2
MaxChunks == 3
MaxCountDay == 7
MaxCountTG == 2

MaxTime == MaxDay * DAY

Workers == {"w1", "w2"}
Sessions == {"s1", "s2"}
Queries == {"what is X", "Need a hotel tonight"}
Priorities == {"high", "medium", "low"}

\* The (session_id, query, response_time_ms, success) inputs of track_query.
TQInputs ==
    { [session_id |-> "s1", query |-> "what is X", response_time_ms |-> 241, success |-> TRUE],
      [session_id |-> "s1", query |-> "Need a hotel tonight", response_time_ms |-> 160, success |-> FALSE],
      [session_id |-> "s2", query |-> "what is X", response_time_ms |-> 160, success |-> TRUE] }

\* The (query, gap_data) inputs of track_content_gap.
TGInputs ==
    { [query |-> "what is X", gap_data |-> [priority |-> "high"]],
      [query |-> "what is X", gap_data |-> [priority |-> "low"]],
      [query |-> "Need a hotel tonight", gap_data |-> [priority |-> "medium"]] }

\* The seeds of hash(): a process started on its own draws a fresh seed, a
\* forked worker inherits its parent's.  Digests of one seed are distinct;
\* the digest of the empty text is 0 under every seed.
Seeds == {1, 2}
Digests == {0} \cup { 10 * sd + n : sd \in Seeds, n \in 1..4 }

\* Markers for what Python leaves out: a missing dict key, a None, no expiry.
Absent == -1
NoExpiry == -1
None == [none |-> TRUE]
Idle == "idle"
NoRet == [op |-> "none", arg |-> None, status |-> "none", value |-> None, fault |-> FALSE,
          quiet |-> TRUE]

Min(a, b) == IF a < b THEN a ELSE b
Max(a, b) == IF a > b THEN a ELSE b

\* sum(): the sum of s[lo..hi], by halves, so that long lists stay shallow.
RECURSIVE SumRange(_, _, _)
SumRange(s, lo, hi) ==
    IF lo > hi THEN 0
    ELSE IF lo = hi THEN s[lo]
    ELSE LET mid == (lo + hi) \div 2
         IN  SumRange(s, lo, mid) + SumRange(s, mid + 1, hi)

SumSeq(s) == SumRange(s, 1, Len(s))

RECURSIVE ReverseSeq(_)
ReverseSeq(s) == IF s = <<>> THEN <<>> ELSE Append(ReverseSeq(Tail(s)), Head(s))

\* The sequences that list every element of S once: the orders in which a
\* KEYS scan may return the keys S.
RECURSIVE Orders(_)
Orders(S) ==
    IF S = {} THEN {<<>>}
    ELSE UNION { { <<x>> \o o : o \in Orders(S \ {x}) } : x \in S }

(***************************************************************************)
(* datetime: the calendar day of an instant (strftime("%Y-%m-%d")), and an *)
(* instant minus timedelta(days=i).                                        *)
(***************************************************************************)
DayOf(t) == t \div DAY
MinusDays(t, i) == t - i * DAY

\* The instants the model's clock visits: the first and the last second of
\* every day, so that a day has two instants and midnight falls between
\* two instants one second apart.
NextInstant(t) == IF t % DAY = DAY - 1 THEN t + 1 ELSE DayOf(t) * DAY + (DAY - 1)

(***************************************************************************)
(* Python's round(): round(x) and round(x, 1) take the nearest value and   *)
(* send a tie to the even neighbour.  n / d with n >= 0, d > 0.            *)
(***************************************************************************)
PyRound(n, d) ==
    LET q == n \div d
        r == n % d
    IN  IF 2 * r < d THEN q
        ELSE IF 2 * r > d THEN q + 1
        ELSE IF q % 2 = 0 THEN q ELSE q + 1

(***************************************************************************)
(* hash(query): a digest fixed by the process's seed, except hash("")      *)
(* which is 0 in every process.                                            *)
(***************************************************************************)
QueryIndex(q) ==
    IF q = "what is X" THEN 1
    ELSE IF q = "best budget trip" THEN 3
    ELSE IF q = "Food COST" THEN 4
    ELSE 2
HashOf(sd, q) == IF q = "" THEN 0 ELSE 10 * sd + QueryIndex(q)

(***************************************************************************)
(* The Redis commands the engine uses, on one keyspace ks: a function from *)
(* the live keys to [val, exp].  t is the store's clock.                   *)
(***************************************************************************)
Entry(v, e) == [val |-> v, exp |-> e]
Put(ks, k, e) == [x \in DOMAIN ks \cup {k} |-> IF x = k THEN e ELSE ks[x]]
Del(ks, k) == [x \in DOMAIN ks \ {k} |-> ks[x]]

SETEX(ks, k, ttl, v, t) == Put(ks, k, Entry(v, t + ttl))
GET(ks, k) == IF k \in DOMAIN ks THEN ks[k].val ELSE None
\* A counter update that stores 1 instead of adding 1 to the stored value.
INCRAsSet(ks, k) ==
    IF k \in DOMAIN ks THEN Put(ks, k, Entry(1, ks[k].exp))
    ELSE Put(ks, k, Entry(1, NoExpiry))
INCR(ks, k) ==
    IF k \in DOMAIN ks THEN Put(ks, k, Entry(ks[k].val + 1, ks[k].exp))
    ELSE Put(ks, k, Entry(1, NoExpiry))
EXPIRE(ks, k, ttl, t) ==
    IF k \in DOMAIN ks THEN Put(ks, k, Entry(ks[k].val, t + ttl)) ELSE ks
\* A push at the tail of the list instead of its head.
RPUSH(ks, k, v) ==
    IF k \in DOMAIN ks THEN Put(ks, k, Entry(Append(ks[k].val, v), ks[k].exp))
    ELSE Put(ks, k, Entry(<<v>>, NoExpiry))
LPUSH(ks, k, v) ==
    IF k \in DOMAIN ks THEN Put(ks, k, Entry(<<v>> \o ks[k].val, ks[k].exp))
    ELSE Put(ks, k, Entry(<<v>>, NoExpiry))
LTRIM(ks, k, start, stop) ==
    IF k \notin DOMAIN ks THEN ks
    ELSE LET kept == SubSeq(ks[k].val, start + 1, Min(stop + 1, Len(ks[k].val)))
         IN  IF kept = <<>> THEN Del(ks, k) ELSE Put(ks, k, Entry(kept, ks[k].exp))
LRANGE_ALL(ks, k) == IF k \in DOMAIN ks THEN ks[k].val ELSE <<>>
KEYS(ks) == DOMAIN ks

\* Expiry: a key whose time has come is gone.
Unexpired(ks, t) ==
    [k \in {x \in DOMAIN ks : ks[x].exp = NoExpiry \/ ks[x].exp > t} |-> ks[k]]
ExpireStore(st, t) ==
    [query |-> Unexpired(st.query, t),
     daily_queries |-> Unexpired(st.daily_queries, t),
     response_times |-> Unexpired(st.response_times, t),
     success_rate |-> Unexpired(st.success_rate, t),
     content_gap |-> Unexpired(st.content_gap, t)]

EmptyKeyspace == [k \in {} |-> None]
EmptyStore ==
    [query |-> EmptyKeyspace, daily_queries |-> EmptyKeyspace,
     response_times |-> EmptyKeyspace, success_rate |-> EmptyKeyspace,
     content_gap |-> EmptyKeyspace]

(***************************************************************************)
(* A Python dict: its items <<key, value>> in insertion order.  Assigning  *)
(* to a key it holds keeps the key's place.                                *)
(***************************************************************************)
DictKeys(d) == { d[i][1] : i \in DOMAIN d }
DictIndex(d, k) == CHOOSE i \in DOMAIN d : d[i][1] = k
DictGet(d, k) == d[DictIndex(d, k)][2]
DictSet(d, k, v) ==
    IF k \in DictKeys(d) THEN [d EXCEPT ![DictIndex(d, k)] = <<k, v>>]
    ELSE Append(d, <<k, v>>)
DictValues(d) == [i \in DOMAIN d |-> d[i][2]]

EmptyMemory == [queries |-> <<>>, content_gaps |-> <<>>]

\* The LLMService before __init__ ran: no client, no call.
Unbuilt ==
    [pc |-> "unbuilt", groq_client |-> FALSE, openai_client |-> FALSE, stream |-> FALSE,
     yielded |-> <<>>, attempted |-> <<>>, failed |-> {}, completed |-> {}, exc |-> "none",
     started |-> FALSE]

(***************************************************************************)
(* The initial state: no worker has built its AnalyticsService yet, the    *)
(* store is empty.  Each worker process has its own hash seed.             *)
(***************************************************************************)
Init ==
    /\ now = 0
    /\ up \in BOOLEAN
    /\ redis = EmptyStore
    /\ mode = [w \in Workers |-> "uninit"]
    /\ seed \in [Workers -> Seeds]
    /\ mem = [w \in Workers |-> EmptyMemory]
    /\ pc = [w \in Workers |-> Idle]
    /\ loc = [w \in Workers |-> None]
    /\ ret = [w \in Workers |-> NoRet]
    /\ nTQ = 0
    /\ nTG = 0
    /\ hist = <<>>
    /\ llm = Unbuilt

(***************************************************************************)
(* The environment: the clock moves on (and the store drops the keys whose *)
(* expiry has come), the store becomes unreachable or reachable again.     *)
(***************************************************************************)
\* A running read handler is marked: the clock has moved during the call.
Moved(l) == IF "still" \in DOMAIN l THEN [l EXCEPT !.still = FALSE, !.st0 = EmptyStore] ELSE l

Tick ==
    /\ now' = NextInstant(now)
    /\ redis' = ExpireStore(redis, NextInstant(now))
    /\ ret' = [w \in Workers |-> NoRet]
    /\ loc' = [w \in Workers |-> Moved(loc[w])]
    /\ UNCHANGED <<up, mode, seed, mem, pc, nTQ, nTG, hist, llm>>

BackendDown ==
    /\ up
    /\ up' = FALSE
    /\ UNCHANGED <<now, redis, mode, seed, mem, pc, loc, ret, nTQ, nTG, hist, llm>>

BackendUp ==
    /\ ~up
    /\ up' = TRUE
    /\ UNCHANGED <<now, redis, mode, seed, mem, pc, loc, ret, nTQ, nTG, hist, llm>>

(***************************************************************************)
(* AnalyticsService.__init__: the startup probe.  ping() succeeding keeps  *)
(* redis_client; any exception is logged and selects the fallback.         *)
(***************************************************************************)
ProbedMode(reachable) == IF reachable THEN "persistent" ELSE "degraded"

\* A variant that probes again whenever the worker is between two calls.
ProbeAgain(w) ==
    /\ pc[w] = Idle
    /\ mode' = [mode EXCEPT ![w] = ProbedMode(up)]
    /\ mem' = [mem EXCEPT ![w] = IF mode[w] = "uninit" THEN EmptyMemory ELSE @]
    /\ UNCHANGED <<now, up, redis, seed, pc, loc, ret, nTQ, nTG, hist, llm>>

Probe(w) ==
    /\ mode[w] = "uninit"
    /\ mode' = [mode EXCEPT ![w] = ProbedMode(up)]
    /\ mem' = [mem EXCEPT ![w] = EmptyMemory]
    /\ UNCHANGED <<now, up, redis, seed, pc, loc, ret, nTQ, nTG, hist, llm>>

(***************************************************************************)
(* How a handler called with arg ends.  Returned: it returned v (fault: a   *)
(* store command failed on the way).  Raised: the exception left it.       *)
(***************************************************************************)
Returned(op, arg, v, fault) ==
    [op |-> op, arg |-> arg, status |-> "ok", value |-> v, fault |-> fault, quiet |-> TRUE]
Raised(op, arg) ==
    [op |-> op, arg |-> arg, status |-> "raised", value |-> None, fault |-> TRUE,
     quiet |-> TRUE]

Finish(w, r) ==
    /\ pc' = [pc EXCEPT ![w] = Idle]
    /\ loc' = [loc EXCEPT ![w] = None]
    /\ ret' = [ret EXCEPT ![w] = r]

Goto(w, label) ==
    /\ pc' = [pc EXCEPT ![w] = label]
    /\ UNCHANGED ret

(***************************************************************************)
(* track_query.                                                            *)
(***************************************************************************)
QueryData(in, t) ==
    [session_id |-> in.session_id, query |-> in.query,
     response_time_ms |-> in.response_time_ms, success |-> in.success,
     timestamp |-> t]

QueryKey(qd) == <<qd.session_id, qd.timestamp>>

SuccessFlag(qd) == IF qd.success THEN 1 ELSE 0

TQ_Begin(w, in) ==
    /\ pc[w] = Idle
    /\ mode[w] # "uninit"
    /\ nTQ' = nTQ + 1
    /\ LET qd == QueryData(in, now)
       IN  IF mode[w] = "persistent"
           THEN /\ pc' = [pc EXCEPT ![w] = "tq_setex"]
                /\ loc' = [loc EXCEPT ![w] = [op |-> "track_query", query_data |-> qd,
                                              date_key |-> Absent]]
                /\ ret' = [ret EXCEPT ![w] = NoRet]
                /\ UNCHANGED <<mem, hist>>
           ELSE /\ mem' = [mem EXCEPT ![w].queries = Append(@, qd)]
                /\ hist' = Append(hist, [op |-> "track_query", worker |-> w, query_data |-> qd])
                /\ Finish(w, Returned("track_query", None, None, FALSE))
    /\ UNCHANGED <<now, up, redis, mode, seed, nTG, llm>>

\* One command of track_query's persistent branch: the store after it.
TQ_Setex(w) ==
    /\ pc[w] = "tq_setex" /\ up
    /\ redis' = [redis EXCEPT !.query =
                   SETEX(@, QueryKey(loc[w].query_data), QUERY_TTL, loc[w].query_data, now)]
    /\ Goto(w, "tq_date")
    /\ UNCHANGED <<now, up, mode, seed, mem, loc, nTQ, nTG, hist, llm>>

\* _update_aggregate_stats reads the clock again for date_key.
DateKey(qd, t) == DayOf(t)

TQ_DateKey(w) ==
    /\ pc[w] = "tq_date"
    /\ loc' = [loc EXCEPT ![w].date_key = DateKey(loc[w].query_data, now)]
    /\ Goto(w, "tq_incr")
    /\ UNCHANGED <<now, up, redis, mode, seed, mem, nTQ, nTG, hist, llm>>

\* The INCR is built from date_key; it executes when the store answers.
TQ_Incr(w) ==
    /\ pc[w] = "tq_incr" /\ up
    /\ redis' = [redis EXCEPT !.daily_queries = INCR(@, loc[w].date_key)]
    /\ Goto(w, "tq_expire_daily")
    /\ UNCHANGED <<now, up, mode, seed, mem, loc, nTQ, nTG, hist, llm>>

TQ_ExpireDaily(w) ==
    /\ pc[w] = "tq_expire_daily" /\ up
    /\ redis' = [redis EXCEPT !.daily_queries = EXPIRE(@, loc[w].date_key, DAILY_TTL, now)]
    /\ Goto(w, "tq_lpush_rt")
    /\ UNCHANGED <<now, up, mode, seed, mem, loc, nTQ, nTG, hist, llm>>

TQ_LPushTimes(w) ==
    /\ pc[w] = "tq_lpush_rt" /\ up
    /\ redis' = [redis EXCEPT !.response_times =
                   LPUSH(@, loc[w].date_key, loc[w].query_data.response_time_ms)]
    /\ Goto(w, "tq_ltrim_rt")
    /\ UNCHANGED <<now, up, mode, seed, mem, loc, nTQ, nTG, hist, llm>>

TQ_LTrimTimes(w) ==
    /\ pc[w] = "tq_ltrim_rt" /\ up
    /\ redis' = [redis EXCEPT !.response_times = LTRIM(@, loc[w].date_key, 0, SAMPLE_LAST)]
    /\ Goto(w, "tq_expire_rt")
    /\ UNCHANGED <<now, up, mode, seed, mem, loc, nTQ, nTG, hist, llm>>

TQ_ExpireTimes(w) ==
    /\ pc[w] = "tq_expire_rt" /\ up
    /\ redis' = [redis EXCEPT !.response_times = EXPIRE(@, loc[w].date_key, SAMPLE_TTL, now)]
    /\ Goto(w, "tq_lpush_sr")
    /\ UNCHANGED <<now, up, mode, seed, mem, loc, nTQ, nTG, hist, llm>>

TQ_LPushSucc(w) ==
    /\ pc[w] = "tq_lpush_sr" /\ up
    /\ redis' = [redis EXCEPT !.success_rate =
                   LPUSH(@, loc[w].date_key, SuccessFlag(loc[w].query_data))]
    /\ Goto(w, "tq_ltrim_sr")
    /\ UNCHANGED <<now, up, mode, seed, mem, loc, nTQ, nTG, hist, llm>>

TQ_LTrimSucc(w) ==
    /\ pc[w] = "tq_ltrim_sr" /\ up
    /\ redis' = [redis EXCEPT !.success_rate = LTRIM(@, loc[w].date_key, 0, SAMPLE_LAST)]
    /\ Goto(w, "tq_expire_sr")
    /\ UNCHANGED <<now, up, mode, seed, mem, loc, nTQ, nTG, hist, llm>>

TQ_ExpireSucc(w) ==
    /\ pc[w] = "tq_expire_sr" /\ up
    /\ redis' = [redis EXCEPT !.success_rate = EXPIRE(@, loc[w].date_key, SAMPLE_TTL, now)]
    /\ hist' = Append(hist, [op |-> "track_query", worker |-> w,
                             query_data |-> loc[w].query_data])
    /\ Finish(w, Returned("track_query", None, None, FALSE))
    /\ UNCHANGED <<now, up, mode, seed, mem, nTQ, nTG, llm>>

(***************************************************************************)
(* track_content_gap.  A stored record without last_seen (a first          *)
(* sighting, and every fallback record) has last_seen = Absent.            *)
(***************************************************************************)
GapRecord(in, t) ==
    [query |-> in.query, gap_data |-> in.gap_data, timestamp |-> t,
     frequency |-> Absent, last_seen |-> Absent]

NewGap(rec) == [rec EXCEPT !.frequency = 1]

\* A variant that restamps the record with the time of the repeat sighting.
RedisRepeatGapRestamped(existing, t) ==
    [existing EXCEPT !.frequency = (IF @ = Absent THEN 1 ELSE @) + 1, !.last_seen = t,
                     !.timestamp = t]

\* The persistent branch's update of the record it read.
RedisRepeatGap(existing, t) ==
    [existing EXCEPT !.frequency = (IF @ = Absent THEN 1 ELSE @) + 1, !.last_seen = t]

\* The fallback branch's update of its record.
MemoryRepeatGap(existing, t) == [existing EXCEPT !.frequency = @ + 1]

TG_Begin(w, in) ==
    /\ pc[w] = Idle
    /\ mode[w] # "uninit"
    /\ nTG' = nTG + 1
    /\ LET rec == GapRecord(in, now)
           h == HashOf(seed[w], in.query)
           gaps == mem[w].content_gaps
       IN  IF mode[w] = "persistent"
           THEN /\ pc' = [pc EXCEPT ![w] = "tg_get"]
                /\ loc' = [loc EXCEPT ![w] = [op |-> "track_content_gap", gap_record |-> rec,
                                              gap_key |-> h, existing |-> None]]
                /\ ret' = [ret EXCEPT ![w] = NoRet]
                /\ UNCHANGED <<mem, hist>>
           ELSE /\ mem' = [mem EXCEPT ![w].content_gaps =
                             IF h \in DictKeys(gaps)
                             THEN DictSet(gaps, h, MemoryRepeatGap(DictGet(gaps, h), now))
                             ELSE DictSet(gaps, h, NewGap(rec))]
                /\ hist' = Append(hist, [op |-> "track_content_gap", worker |-> w,
                                         gap_record |-> rec])
                /\ Finish(w, Returned("track_content_gap", None, None, FALSE))
    /\ UNCHANGED <<now, up, redis, mode, seed, nTQ, llm>>

TG_Get(w) ==
    /\ pc[w] = "tg_get" /\ up
    /\ loc' = [loc EXCEPT ![w].existing = GET(redis.content_gap, loc[w].gap_key)]
    /\ Goto(w, "tg_setex")
    /\ UNCHANGED <<now, up, redis, mode, seed, mem, nTQ, nTG, hist, llm>>

\* A variant whose repeat sighting keeps the expiry the record already has.
TG_SetexKeepExpiry(w) ==
    /\ pc[w] = "tg_setex" /\ up
    /\ LET rec == loc[w].gap_record
           k == loc[w].gap_key
           written == IF loc[w].existing # None
                      THEN RedisRepeatGap(loc[w].existing, rec.timestamp)
                      ELSE NewGap(rec)
       IN  redis' = [redis EXCEPT !.content_gap =
                        IF k \in KEYS(@) THEN Put(@, k, Entry(written, @[k].exp))
                        ELSE SETEX(@, k, GAP_TTL, written, now)]
    /\ hist' = Append(hist, [op |-> "track_content_gap", worker |-> w,
                             gap_record |-> loc[w].gap_record])
    /\ Finish(w, Returned("track_content_gap", None, None, FALSE))
    /\ UNCHANGED <<now, up, mode, seed, mem, nTQ, nTG, llm>>

TG_Setex(w) ==
    /\ pc[w] = "tg_setex" /\ up
    /\ LET rec == loc[w].gap_record
           written == IF loc[w].existing # None
                      THEN RedisRepeatGap(loc[w].existing, rec.timestamp)
                      ELSE NewGap(rec)
       IN  redis' = [redis EXCEPT !.content_gap = SETEX(@, loc[w].gap_key, GAP_TTL, written, now)]
    /\ hist' = Append(hist, [op |-> "track_content_gap", worker |-> w,
                             gap_record |-> loc[w].gap_record])
    /\ Finish(w, Returned("track_content_gap", None, None, FALSE))
    /\ UNCHANGED <<now, up, mode, seed, mem, nTQ, nTG, llm>>

(***************************************************************************)
(* A store command of a track handler fails: neither handler catches, the  *)
(* exception leaves the engine.                                            *)
(***************************************************************************)
TrackRaise(w) ==
    /\ pc[w] \notin {Idle, "tq_date"} /\ ~up
    /\ loc[w].op \in {"track_query", "track_content_gap"}
    /\ Finish(w, Raised(loc[w].op, None))
    /\ UNCHANGED <<now, up, redis, mode, seed, mem, nTQ, nTG, hist, llm>>


(***************************************************************************)
(* _categorize_query: the query text in lower case, then the first rule    *)
(* one of whose words occurs in it.  Text is a sequence of characters.     *)
(***************************************************************************)
Chars(q) ==
    IF q = "what is X" THEN <<"w","h","a","t"," ","i","s"," ","X">>
    ELSE IF q = "Need a hotel tonight"
    THEN <<"N","e","e","d"," ","a"," ","h","o","t","e","l"," ","t","o","n","i","g","h","t">>
    ELSE IF q = "best budget trip"
    THEN <<"b","e","s","t"," ","b","u","d","g","e","t"," ","t","r","i","p">>
    ELSE IF q = "Food COST"
    THEN <<"F","o","o","d"," ","C","O","S","T">>
    ELSE <<>>

LowerChar(c) ==
    IF c = "N" THEN "n" ELSE IF c = "X" THEN "x"
    ELSE IF c = "F" THEN "f" ELSE IF c = "C" THEN "c" ELSE IF c = "O" THEN "o"
    ELSE IF c = "S" THEN "s" ELSE IF c = "T" THEN "t" ELSE c
Lower(text) == [i \in DOMAIN text |-> LowerChar(text[i])]

Contains(text, word) ==
    \E i \in 0..(Len(text) - Len(word)) : SubSeq(text, i + 1, i + Len(word)) = word

HotelWords == { <<"h","o","t","e","l">>,
                <<"a","c","c","o","m","m","o","d","a","t","i","o","n">>,
                <<"s","t","a","y">> }
TourWords == { <<"t","o","u","r">>, <<"t","r","i","p">>, <<"t","r","a","v","e","l">> }
DiningWords == { <<"r","e","s","t","a","u","r","a","n","t">>, <<"f","o","o","d">>,
                 <<"d","i","n","i","n","g">> }
PricingWords == { <<"p","r","i","c","e">>, <<"c","o","s","t">>, <<"b","u","d","g","e","t">> }

\* A variant that tries the Pricing rule before the Tours rule.
CategorizeTextPricingFirst(text) ==
    LET query_lower == Lower(text)
        AnyWord(words) == \E word \in words : Contains(query_lower, word)
    IN  IF AnyWord(HotelWords) THEN "Hotels"
        ELSE IF AnyWord(PricingWords) THEN "Pricing"
        ELSE IF AnyWord(TourWords) THEN "Tours"
        ELSE IF AnyWord(DiningWords) THEN "Dining"
        ELSE "General"

CategorizeText(text) ==
    LET query_lower == Lower(text)
        AnyWord(words) == \E word \in words : Contains(query_lower, word)
    IN  IF AnyWord(HotelWords) THEN "Hotels"
        ELSE IF AnyWord(TourWords) THEN "Tours"
        ELSE IF AnyWord(DiningWords) THEN "Dining"
        ELSE IF AnyWord(PricingWords) THEN "Pricing"
        ELSE "General"

Categorize(q) == CategorizeText(Chars(q))

\* _priority_score
PriorityScore(priority) ==
    IF priority = "high" THEN 3
    ELSE IF priority = "medium" THEN 2
    ELSE IF priority = "low" THEN 1
    ELSE 1

(***************************************************************************)
(* sorted(items, key=..., reverse=True): descending by key, items of equal *)
(* key in their input order.  An item is [k1, k2, item]; keys compare as   *)
(* the pair (k1, k2).                                                      *)
(***************************************************************************)
\* A variant that compares the second component of the key first.
KeyGreaterSecondFirst(a, b) == a.k2 > b.k2 \/ (a.k2 = b.k2 /\ a.k1 > b.k1)

KeyGreater(a, b) == a.k1 > b.k1 \/ (a.k1 = b.k1 /\ a.k2 > b.k2)

RECURSIVE InsertDesc(_, _)
InsertDesc(sorted, x) ==
    IF sorted = <<>> THEN <<x>>
    ELSE IF KeyGreater(x, Head(sorted)) THEN <<x>> \o sorted
    ELSE <<Head(sorted)>> \o InsertDesc(Tail(sorted), x)

RECURSIVE SortedDesc(_)
SortedDesc(items) ==
    IF items = <<>> THEN <<>>
    ELSE InsertDesc(SortedDesc(SubSeq(items, 1, Len(items) - 1)), items[Len(items)])

\* A variant that keeps one entry more than the limit.
SliceToInclusive(seq, limit) == SubSeq(seq, 1, Min(limit + 1, Len(seq)))

\* seq[:limit]
SliceTo(seq, limit) ==
    IF limit >= 0 THEN SubSeq(seq, 1, Min(limit, Len(seq)))
    ELSE SubSeq(seq, 1, Max(Len(seq) + limit, 0))

(***************************************************************************)
(* dailyCount, as get_query_trends and _get_redis_analytics read it:       *)
(* int(GET(daily_queries:<day>) or 0), the count of the fallback's events  *)
(* of that day.                                                            *)
(***************************************************************************)
RedisDailyCount(st, date) ==
    IF DayOf(date) \in KEYS(st.daily_queries) THEN st.daily_queries[DayOf(date)].val ELSE 0

\* _get_memory_daily_count
MemoryDailyCount(m, date) ==
    Cardinality({ i \in DOMAIN m.queries : DayOf(m.queries[i].timestamp) = DayOf(date) })

DailyCount(w, date) ==
    IF mode[w] = "persistent" THEN RedisDailyCount(redis, date)
    ELSE MemoryDailyCount(mem[w], date)

(***************************************************************************)
(* A read handler runs command by command, like a track handler: between   *)
(* two of its steps the clock may move and other workers may write.  While *)
(* it runs, loc[w] holds its local variables, whether the clock has stood  *)
(* still since it began (still), and the store as it was when it began     *)
(* (st0).  A result is quiet when the clock stood still and the store is   *)
(* the same at the return: the call saw one clock and one store.           *)
(***************************************************************************)
ReadResult(w, v, fault) ==
    [Returned(loc[w].op, loc[w].arg, v, fault)
        EXCEPT !.quiet = (loc[w].still /\ loc[w].st0 = redis)]

\* A variant of a read step that consumes what it reads: the fallback list
\* of events is emptied.
ReadStepDraining(w) ==
    /\ mem' = [mem EXCEPT ![w].queries = <<>>]
    /\ UNCHANGED <<now, up, redis, mode, seed, nTQ, nTG, hist, llm>>

\* What every step of a read handler leaves as it was.
ReadStep(w) == UNCHANGED <<now, up, redis, mode, seed, mem, nTQ, nTG, hist, llm>>

\* A store command of get_query_trends, get_top_queries or get_content_gaps
\* fails: none of them catches, the exception leaves the engine.
ReadRaise(w) ==
    /\ pc[w] \in {"gt_get", "top_get", "gaps_get"} /\ ~up
    /\ Finish(w, Raised(loc[w].op, loc[w].arg))
    /\ ReadStep(w)

(***************************************************************************)
(* get_query_trends: reads the clock once, walks back from that day with   *)
(* one GET per day, returns the walk reversed.  range(days) is empty for   *)
(* days <= 0: no command is sent.                                          *)
(***************************************************************************)
TrendEntry(date, count) == [date |-> DayOf(date), queries |-> count]

\* The walk of the fallback branch, which sends no command.
MemoryTrendsWalk(m, days, end_date) ==
    [n \in 1..days |->
        LET date == MinusDays(end_date, n - 1)
        IN  TrendEntry(date, MemoryDailyCount(m, date))]

\* A variant that returns the walk as it was made, newest first.
QueryTrendsNewestFirst(trends) == trends

\* list(reversed(trends))
QueryTrends(trends) == ReverseSeq(trends)

GT_Begin(w, days) ==
    /\ pc[w] = Idle
    /\ mode[w] # "uninit"
    /\ IF days <= 0
       THEN Finish(w, Returned("get_query_trends", days, <<>>, FALSE))
       ELSE IF mode[w] = "persistent"
       THEN /\ pc' = [pc EXCEPT ![w] = "gt_get"]
            /\ loc' = [loc EXCEPT ![w] = [op |-> "get_query_trends", arg |-> days,
                                          end_date |-> now, trends |-> <<>>,
                                          still |-> TRUE, st0 |-> redis]]
            /\ ret' = [ret EXCEPT ![w] = NoRet]
       ELSE Finish(w, Returned("get_query_trends", days,
                               QueryTrends(MemoryTrendsWalk(mem[w], days, now)), FALSE))
    /\ ReadStep(w)

\* One turn of the loop: the GET of the day i days before end_date.
GT_Get(w) ==
    /\ pc[w] = "gt_get" /\ up
    /\ LET i == Len(loc[w].trends)
           date == MinusDays(loc[w].end_date, i)
           trends == Append(loc[w].trends, TrendEntry(date, RedisDailyCount(redis, date)))
       IN  IF Len(trends) < loc[w].arg
           THEN /\ loc' = [loc EXCEPT ![w].trends = trends]
                /\ UNCHANGED <<pc, ret>>
           ELSE Finish(w, ReadResult(w, QueryTrends(trends), FALSE))
    /\ ReadStep(w)

(***************************************************************************)
(* The scans of get_top_queries and get_content_gaps: KEYS, then one GET   *)
(* per key listed, json.loads(GET(key) or "{}").  A key that is gone at    *)
(* its GET gives the empty dict.                                           *)
(***************************************************************************)
EmptyDict == [empty |-> TRUE]

ScanGet(ks, key) ==
    LET reply == GET(ks, key)
    IN  IF reply = None THEN EmptyDict ELSE reply

\* The orders in which KEYS may list the keys of keyspace ks.
ScanOrders(ks) == Orders(KEYS(ks))

(***************************************************************************)
(* get_top_queries.  scan lists the stored events in the order the handler *)
(* meets them: the KEYS order (persistent), the list order (fallback).     *)
(***************************************************************************)
\* data.get("query", "")
DataQuery(data) == IF "query" \in DOMAIN data THEN data.query ELSE ""

RECURSIVE Tally(_, _)
Tally(scan, query_counts) ==
    IF scan = <<>> THEN query_counts
    ELSE LET query == DataQuery(Head(scan))
         IN  IF query = "" THEN Tally(Tail(scan), query_counts)
             ELSE Tally(Tail(scan),
                        DictSet(query_counts, query,
                                IF query \in DictKeys(query_counts)
                                THEN DictGet(query_counts, query) + 1 ELSE 1))

TopQueriesOf(scan, limit) ==
    LET query_counts == Tally(scan, <<>>)
        items == [i \in DOMAIN query_counts |->
                    [k1 |-> query_counts[i][2], k2 |-> 0, item |-> query_counts[i]]]
        sorted_queries == SliceTo(SortedDesc(items), limit)
    IN  [i \in DOMAIN sorted_queries |->
            [query |-> sorted_queries[i].item[1], count |-> sorted_queries[i].item[2],
             category |-> Categorize(sorted_queries[i].item[1])]]

\* The call and, on the store, its KEYS command.
Top_Begin(w, limit) ==
    /\ pc[w] = Idle
    /\ mode[w] # "uninit"
    /\ IF mode[w] # "persistent"
       THEN Finish(w, Returned("get_top_queries", limit,
                               TopQueriesOf(mem[w].queries, limit), FALSE))
       ELSE IF ~up
       THEN Finish(w, Raised("get_top_queries", limit))
       ELSE \E query_keys \in ScanOrders(redis.query) :
               IF query_keys = <<>>
               THEN Finish(w, Returned("get_top_queries", limit,
                                       TopQueriesOf(<<>>, limit), FALSE))
               ELSE /\ pc' = [pc EXCEPT ![w] = "top_get"]
                    /\ loc' = [loc EXCEPT ![w] = [op |-> "get_top_queries", arg |-> limit,
                                                  keys |-> query_keys, scan |-> <<>>,
                                                  still |-> TRUE, st0 |-> redis]]
                    /\ ret' = [ret EXCEPT ![w] = NoRet]
    /\ ReadStep(w)

\* One turn of the loop: the GET of the next key listed.
Top_Get(w) ==
    /\ pc[w] = "top_get" /\ up
    /\ LET key == loc[w].keys[Len(loc[w].scan) + 1]
           scan == Append(loc[w].scan, ScanGet(redis.query, key))
       IN  IF Len(scan) < Len(loc[w].keys)
           THEN /\ loc' = [loc EXCEPT ![w].scan = scan]
                /\ UNCHANGED <<pc, ret>>
           ELSE Finish(w, ReadResult(w, TopQueriesOf(scan, loc[w].arg), FALSE))
    /\ ReadStep(w)

(***************************************************************************)
(* get_content_gaps: the records, sorted by (priority score, frequency).   *)
(***************************************************************************)
\* x.get("gap_data", {}).get("priority", "low")
GapPriority(rec) ==
    IF "gap_data" \notin DOMAIN rec THEN "low"
    ELSE IF "priority" \in DOMAIN rec.gap_data THEN rec.gap_data.priority
    ELSE "low"

\* x.get("frequency", 0)
GapFrequency(rec) ==
    IF "frequency" \notin DOMAIN rec THEN 0
    ELSE IF rec.frequency = Absent THEN 0
    ELSE rec.frequency

ContentGapsOf(gaps) ==
    LET items == [i \in DOMAIN gaps |->
                    [k1 |-> PriorityScore(GapPriority(gaps[i])),
                     k2 |-> GapFrequency(gaps[i]),
                     item |-> gaps[i]]]
        sorted == SortedDesc(items)
    IN  [i \in DOMAIN sorted |-> sorted[i].item]

\* The call and, on the store, its KEYS command.
Gaps_Begin(w) ==
    /\ pc[w] = Idle
    /\ mode[w] # "uninit"
    /\ IF mode[w] # "persistent"
       THEN Finish(w, Returned("get_content_gaps", None,
                               ContentGapsOf(DictValues(mem[w].content_gaps)), FALSE))
       ELSE IF ~up
       THEN Finish(w, Raised("get_content_gaps", None))
       ELSE \E gap_keys \in ScanOrders(redis.content_gap) :
               IF gap_keys = <<>>
               THEN Finish(w, Returned("get_content_gaps", None, ContentGapsOf(<<>>), FALSE))
               ELSE /\ pc' = [pc EXCEPT ![w] = "gaps_get"]
                    /\ loc' = [loc EXCEPT ![w] = [op |-> "get_content_gaps", arg |-> None,
                                                  keys |-> gap_keys, gaps |-> <<>>,
                                                  still |-> TRUE, st0 |-> redis]]
                    /\ ret' = [ret EXCEPT ![w] = NoRet]
    /\ ReadStep(w)

\* One turn of the loop: the GET of the next key listed.
Gaps_Get(w) ==
    /\ pc[w] = "gaps_get" /\ up
    /\ LET key == loc[w].keys[Len(loc[w].gaps) + 1]
           gaps == Append(loc[w].gaps, ScanGet(redis.content_gap, key))
       IN  IF Len(gaps) < Len(loc[w].keys)
           THEN /\ loc' = [loc EXCEPT ![w].gaps = gaps]
                /\ UNCHANGED <<pc, ret>>
           ELSE Finish(w, ReadResult(w, ContentGapsOf(gaps), FALSE))
    /\ ReadStep(w)

(***************************************************************************)
(* get_analytics_summary.                                                  *)
(***************************************************************************)
Summary(total, avg, rate, gaps, t) ==
    [total_queries |-> total, average_response_time_ms |-> avg,
     success_rate |-> rate, content_gaps_count |-> gaps, last_updated |-> t]

\* round(sum(xs) / len(xs) if xs else 0).  xs holds halves of a millisecond:
\* the float sum and quotient of such values round as the exact ones do.
RoundedMean(xs) == IF xs = <<>> THEN 0 ELSE PyRound(SumSeq(xs), 2 * Len(xs))

(***************************************************************************)
(* round(sum(flags) / len(flags) * 100, 1), in floats: the quotient is     *)
(* rounded to a double, so is its product with 100, and round(.., 1) then  *)
(* rounds the double it is given.  A rate that does not lie half-way       *)
(* between two tenths is at least 1 / (2 * len) away from the half-way     *)
(* point, far more than the error of the double, and rounds as the exact   *)
(* rate does.  A rate half-way between two tenths is m / 20 with m odd,    *)
(* m = 2000 * successes / len; the quotient of two integers is the double  *)
(* nearest to its value, so the result depends on m alone, for every       *)
(* length.  RateTiesUp lists the m whose double rounds to the tenth above, *)
(* (m + 1) / 2; every other odd m below 2000 rounds to (m - 1) / 2.        *)
(***************************************************************************)
RateTiesUp ==
    { 1, 7, 13, 15, 17, 21, 27, 29, 31, 33, 35, 41, 47, 49, 55, 57, 67, 69,
      75, 77, 79, 83, 89, 93, 95, 97, 99, 101, 109, 113, 115, 117, 123, 129,
      131, 133, 135, 137, 139, 155, 159, 161, 163, 169, 171, 175, 183, 191,
      193, 195, 199, 201, 203, 213, 215, 221, 223, 229, 231, 233, 235, 243,
      251, 253, 255, 259, 261, 263, 267, 269, 271, 273, 275, 277, 279, 281,
      295, 303, 311, 313, 315, 319, 321, 323, 327, 331, 333, 335, 337, 339,
      341, 343, 355, 361, 367, 371, 375, 377, 381, 387, 391, 393, 395, 397,
      399, 401, 403, 415, 421, 431, 435, 437, 441, 447, 451, 453, 455, 457,
      461, 463, 467, 475, 481, 491, 495, 497, 501, 507, 511, 513, 515, 517,
      521, 523, 527, 529, 531, 533, 535, 537, 539, 541, 543, 545, 547, 549,
      551, 553, 555, 557, 559, 561, 595, 611, 615, 617, 621, 627, 631, 635,
      637, 647, 649, 651, 655, 657, 659, 661, 667, 669, 671, 673, 675, 677,
      679, 681, 683, 687, 695, 707, 715, 717, 727, 735, 737, 739, 747, 749,
      755, 757, 759, 767, 769, 771, 775, 777, 779, 781, 787, 789, 791, 795,
      797, 799, 801, 803, 807, 809, 811, 815, 835, 837, 847, 855, 857, 859,
      867, 869, 875, 877, 879, 887, 889, 895, 897, 899, 901, 907, 909, 911,
      915, 917, 919, 921, 923, 927, 929, 931, 933, 935, 937, 955, 957, 967,
      975, 977, 987, 989, 995, 997, 999, 1055, 1075, 1087, 1095, 1097, 1107,
      1109, 1115, 1117, 1119, 1127, 1129, 1135, 1137, 1139, 1147, 1149, 1151,
      1155, 1157, 1159, 1161, 1167, 1169, 1171, 1173, 1175, 1177, 1179, 1181,
      1183, 1187, 1189, 1191, 1193, 1195, 1197, 1199, 1201, 1203, 1207, 1209,
      1211, 1213, 1215, 1217, 1219, 1221, 1223, 1225, 1227, 1229, 1231, 1233,
      1235, 1237, 1239, 1241, 1243, 1245, 1247, 1249, 1289, 1295, 1299, 1309,
      1315, 1319, 1329, 1335, 1339, 1343, 1349, 1353, 1355, 1359, 1363, 1369,
      1373, 1375, 1379, 1383, 1389, 1393, 1395, 1399, 1403, 1409, 1413, 1415,
      1417, 1419, 1423, 1427, 1429, 1433, 1435, 1437, 1439, 1443, 1447, 1449,
      1453, 1455, 1457, 1459, 1463, 1467, 1469, 1471, 1473, 1475, 1477, 1479,
      1481, 1483, 1487, 1489, 1491, 1493, 1495, 1497, 1499, 1515, 1535, 1539,
      1549, 1555, 1559, 1569, 1575, 1579, 1589, 1593, 1595, 1599, 1603, 1609,
      1613, 1615, 1619, 1623, 1629, 1633, 1635, 1639, 1643, 1649, 1653, 1655,
      1659, 1663, 1667, 1669, 1673, 1675, 1677, 1679, 1683, 1687, 1689, 1693,
      1695, 1697, 1699, 1703, 1707, 1709, 1713, 1715, 1717, 1719, 1721, 1723,
      1727, 1729, 1731, 1733, 1735, 1737, 1739, 1741, 1743, 1747, 1749, 1755,
      1775, 1789, 1795, 1799, 1809, 1815, 1819, 1829, 1835, 1839, 1843, 1849,
      1853, 1855, 1859, 1863, 1869, 1873, 1875, 1879, 1883, 1889, 1893, 1895,
      1899, 1903, 1909, 1913, 1915, 1917, 1919, 1923, 1927, 1929, 1933, 1935,
      1937, 1939, 1943, 1947, 1949, 1953, 1955, 1957, 1959, 1963, 1967, 1969,
      1971, 1973, 1975, 1977, 1979, 1981, 1983, 1987, 1989, 1991, 1993, 1995,
      1997, 1999 }

\* A variant that leaves the rate a fraction, without the * 100.
RoundedRateAsFraction(flags) == IF flags = <<>> THEN 0 ELSE PyRound(SumSeq(flags) * 10, Len(flags))

\* <<q, r>>: quotient and remainder of (q * n + r) * 10^k by n.
RECURSIVE LongDiv(_, _, _, _)
LongDiv(q, r, n, k) ==
    IF k = 0 THEN <<q, r>>
    ELSE LongDiv(10 * q + (10 * r) \div n, (10 * r) % n, n, k - 1)

RoundedRate(flags) ==
    IF flags = <<>> THEN 0
    ELSE LET successes == SumSeq(flags)
             n == Len(flags)
             d == LongDiv(successes \div n, successes % n, n, 3)
             tenths == d[1]
             rest == d[2]
         IN  IF 2 * rest < n THEN tenths
             ELSE IF 2 * rest > n THEN tenths + 1
             ELSE IF 2 * tenths + 1 \in RateTiesUp THEN tenths + 1
             ELSE tenths

\* A variant whose content_gaps_count says only whether there is a gap.
RedisAnalyticsAnyGap(total_queries, response_times, success_records, gap_keys, t) ==
    Summary(total_queries, RoundedMean(response_times), RoundedRate(success_records),
            Min(Cardinality(gap_keys), 1), t)

\* _get_redis_analytics: the summary of what its commands replied, stamped
\* with the last reading of the clock.
RedisAnalytics(total_queries, response_times, success_records, gap_keys, t) ==
    Summary(total_queries, RoundedMean(response_times), RoundedRate(success_records),
            Cardinality(gap_keys), t)

\* _get_memory_analytics: the events after week_ago, stamped with the second
\* reading of the clock.
MemoryAnalytics(m, week_ago, t) ==
    LET recent_queries == SelectSeq(m.queries, LAMBDA q : q.timestamp > week_ago)
        times == [i \in DOMAIN recent_queries |-> recent_queries[i].response_time_ms]
        flags == [i \in DOMAIN recent_queries |->
                    IF recent_queries[i].success THEN 1 ELSE 0]
    IN  Summary(Len(recent_queries), RoundedMean(times), RoundedRate(flags),
                Len(m.content_gaps), t)

\* _get_default_analytics
DefaultAnalytics(t) == Summary(0, 0, 0, 0, t)

\* A variant without the try/except: the exception leaves the handler.
OnSummaryErrorUncaught(w) == Raised("get_analytics_summary", None)

\* The except clause of get_analytics_summary.
OnSummaryError(w) == ReadResult(w, DefaultAnalytics(now), TRUE)

\* The call; line 214 reads the clock for today, line 253 for week_ago.
GS_Begin(w) ==
    /\ pc[w] = Idle
    /\ mode[w] # "uninit"
    /\ IF mode[w] = "persistent"
       THEN /\ pc' = [pc EXCEPT ![w] = "gs_date"]
            /\ loc' = [loc EXCEPT ![w] = [op |-> "get_analytics_summary", arg |-> None,
                                          today |-> DayOf(now), i |-> 0, date |-> Absent,
                                          total_queries |-> 0, response_times |-> <<>>,
                                          success_records |-> <<>>, gap_keys |-> {},
                                          still |-> TRUE, st0 |-> redis]]
       ELSE /\ pc' = [pc EXCEPT ![w] = "gs_memory"]
            /\ loc' = [loc EXCEPT ![w] = [op |-> "get_analytics_summary", arg |-> None,
                                          week_ago |-> MinusDays(now, SUMMARY_DAYS),
                                          still |-> TRUE, st0 |-> redis]]
    /\ ret' = [ret EXCEPT ![w] = NoRet]
    /\ ReadStep(w)

\* Line 219: each turn of the loop reads the clock again.
GS_Date(w) ==
    /\ pc[w] = "gs_date"
    /\ loc' = [loc EXCEPT ![w].date = MinusDays(now, loc[w].i)]
    /\ Goto(w, "gs_get")
    /\ ReadStep(w)

\* Line 220: the GET of the turn.  date is not read again before line 219
\* assigns it anew.
GS_Get(w) ==
    /\ pc[w] = "gs_get" /\ up
    /\ loc' = [loc EXCEPT ![w].total_queries = @ + RedisDailyCount(redis, loc[w].date),
                          ![w].i = @ + 1, ![w].date = Absent]
    /\ Goto(w, IF loc[w].i + 1 < SUMMARY_DAYS THEN "gs_date" ELSE "gs_lrange_rt")
    /\ ReadStep(w)

GS_LRangeTimes(w) ==
    /\ pc[w] = "gs_lrange_rt" /\ up
    /\ loc' = [loc EXCEPT ![w].response_times = LRANGE_ALL(redis.response_times, loc[w].today)]
    /\ Goto(w, "gs_lrange_sr")
    /\ ReadStep(w)

GS_LRangeSucc(w) ==
    /\ pc[w] = "gs_lrange_sr" /\ up
    /\ loc' = [loc EXCEPT ![w].success_records = LRANGE_ALL(redis.success_rate, loc[w].today)]
    /\ Goto(w, "gs_keys")
    /\ ReadStep(w)

GS_Keys(w) ==
    /\ pc[w] = "gs_keys" /\ up
    /\ loc' = [loc EXCEPT ![w].gap_keys = KEYS(redis.content_gap)]
    /\ Goto(w, "gs_return")
    /\ ReadStep(w)

\* Line 243: the last reading of the clock, and the return.
GS_Return(w) ==
    /\ pc[w] = "gs_return"
    /\ Finish(w, ReadResult(w, RedisAnalytics(loc[w].total_queries, loc[w].response_times,
                                              loc[w].success_records, loc[w].gap_keys, now),
                            FALSE))
    /\ ReadStep(w)

\* Line 274: the fallback branch's second reading of the clock, and the
\* return.
GS_MemoryReturn(w) ==
    /\ pc[w] = "gs_memory"
    /\ Finish(w, ReadResult(w, MemoryAnalytics(mem[w], loc[w].week_ago, now), FALSE))
    /\ ReadStep(w)

\* A store command of _get_redis_analytics fails.
GS_Fail(w) ==
    /\ pc[w] \in {"gs_get", "gs_lrange_rt", "gs_lrange_sr", "gs_keys"} /\ ~up
    /\ Finish(w, OnSummaryError(w))
    /\ ReadStep(w)

(***************************************************************************)
(* main.py: what an analytics endpoint answers for how the engine call     *)
(* ended.  The track endpoints answer {"status": "success"}, the read      *)
(* endpoints the engine's result; an exception becomes a 500.              *)
(***************************************************************************)
EndpointResponse(r) ==
    IF r.status = "raised" THEN [code |-> 500, body |-> "error"]
    ELSE IF r.op \in {"track_query", "track_content_gap"}
    THEN [code |-> 200, body |-> "success"]
    ELSE [code |-> 200, body |-> r.value]


(***************************************************************************)
(* The specifications.  The guards written here, and only these, are       *)
(* bounds of the model: how far the clock runs and how many calls begin.   *)
(***************************************************************************)
TrendDays == (-1..MaxTrendDays) \cup {DEFAULT_TRENDS_DAYS}
Limits == {1, DEFAULT_LIMIT}

ClockLeft == NextInstant(now) <= MaxTime
QueriesLeft == nTQ < MaxTQ
GapsLeft == nTG < MaxTG
FaultCallsLeft == nTQ + nTG < MaxFaultCalls

\* Every worker, with the store failing and recovering at any moment.
Next ==
    \/ ClockLeft /\ Tick
    \/ BackendDown
    \/ BackendUp
    \/ \E w \in Workers : Probe(w)
    \/ \E w \in Workers, in \in TQInputs : QueriesLeft /\ TQ_Begin(w, in)
    \/ \E w \in Workers : TQ_Setex(w)
    \/ \E w \in Workers : TQ_DateKey(w)
    \/ \E w \in Workers : TQ_Incr(w)
    \/ \E w \in Workers : TQ_ExpireDaily(w)
    \/ \E w \in Workers : TQ_LPushTimes(w)
    \/ \E w \in Workers : TQ_LTrimTimes(w)
    \/ \E w \in Workers : TQ_ExpireTimes(w)
    \/ \E w \in Workers : TQ_LPushSucc(w)
    \/ \E w \in Workers : TQ_LTrimSucc(w)
    \/ \E w \in Workers : TQ_ExpireSucc(w)
    \/ \E w \in Workers, in \in TGInputs : GapsLeft /\ TG_Begin(w, in)
    \/ \E w \in Workers : TG_Get(w)
    \/ \E w \in Workers : TG_Setex(w)
    \/ \E w \in Workers : TrackRaise(w)
    \/ \E w \in Workers : GS_Begin(w)
    \/ \E w \in Workers : GS_Date(w)
    \/ \E w \in Workers : GS_Get(w)
    \/ \E w \in Workers : GS_LRangeTimes(w)
    \/ \E w \in Workers : GS_LRangeSucc(w)
    \/ \E w \in Workers : GS_Keys(w)
    \/ \E w \in Workers : GS_Return(w)
    \/ \E w \in Workers : GS_MemoryReturn(w)
    \/ \E w \in Workers : GS_Fail(w)
    \/ \E w \in Workers, days \in TrendDays : GT_Begin(w, days)
    \/ \E w \in Workers : GT_Get(w)
    \/ \E w \in Workers, limit \in Limits : Top_Begin(w, limit)
    \/ \E w \in Workers : Top_Get(w)
    \/ \E w \in Workers : Gaps_Begin(w)
    \/ \E w \in Workers : Gaps_Get(w)
    \/ \E w \in Workers : ReadRaise(w)

Spec == Init /\ [][Next]_vars

\* One engine tracking queries: no failing command after the probe, no
\* other caller.
InitOne == Init /\ seed = [w \in Workers |-> 1]

NextQueries ==
    \/ ClockLeft /\ Tick
    \/ Probe("w1")
    \/ \E in \in TQInputs : QueriesLeft /\ TQ_Begin("w1", in)
    \/ TQ_Setex("w1")
    \/ TQ_DateKey("w1")
    \/ TQ_Incr("w1")
    \/ TQ_ExpireDaily("w1")
    \/ TQ_LPushTimes("w1")
    \/ TQ_LTrimTimes("w1")
    \/ TQ_ExpireTimes("w1")
    \/ TQ_LPushSucc("w1")
    \/ TQ_LTrimSucc("w1")
    \/ TQ_ExpireSucc("w1")
    \/ GS_Begin("w1")
    \/ GS_Date("w1")
    \/ GS_Get("w1")
    \/ GS_LRangeTimes("w1")
    \/ GS_LRangeSucc("w1")
    \/ GS_Keys("w1")
    \/ GS_Return("w1")
    \/ GS_MemoryReturn("w1")
    \/ \E days \in TrendDays : GT_Begin("w1", days)
    \/ GT_Get("w1")
    \/ \E limit \in Limits : Top_Begin("w1", limit)
    \/ Top_Get("w1")

SpecQueries == InitOne /\ [][NextQueries]_vars

\* One engine and one session tracking queries, with the two reads that
\* report the daily counts: the summary and the trends.
DayInputs == { in \in TQInputs : in.session_id = "s1" }

NextTrends ==
    \/ ClockLeft /\ Tick
    \/ Probe("w1")
    \/ \E in \in DayInputs : QueriesLeft /\ TQ_Begin("w1", in)
    \/ TQ_Setex("w1")
    \/ TQ_DateKey("w1")
    \/ TQ_Incr("w1")
    \/ TQ_ExpireDaily("w1")
    \/ TQ_LPushTimes("w1")
    \/ TQ_LTrimTimes("w1")
    \/ TQ_ExpireTimes("w1")
    \/ TQ_LPushSucc("w1")
    \/ TQ_LTrimSucc("w1")
    \/ TQ_ExpireSucc("w1")
    \/ GS_Begin("w1")
    \/ GS_Date("w1")
    \/ GS_Get("w1")
    \/ GS_LRangeTimes("w1")
    \/ GS_LRangeSucc("w1")
    \/ GS_Keys("w1")
    \/ GS_Return("w1")
    \/ GS_MemoryReturn("w1")
    \/ \E days \in TrendDays : GT_Begin("w1", days)
    \/ GT_Get("w1")

SpecTrends == InitOne /\ [][NextTrends]_vars

\* One engine tracking content gaps, likewise.
NextGaps ==
    \/ ClockLeft /\ Tick
    \/ Probe("w1")
    \/ \E in \in TGInputs : GapsLeft /\ TG_Begin("w1", in)
    \/ TG_Get("w1")
    \/ TG_Setex("w1")
    \/ GS_Begin("w1")
    \/ GS_Date("w1")
    \/ GS_Get("w1")
    \/ GS_LRangeTimes("w1")
    \/ GS_LRangeSucc("w1")
    \/ GS_Keys("w1")
    \/ GS_Return("w1")
    \/ GS_MemoryReturn("w1")
    \/ Gaps_Begin("w1")
    \/ Gaps_Get("w1")

SpecGaps == InitOne /\ [][NextGaps]_vars

\* One engine at one instant, with the store failing and recovering at any
\* moment.
FaultTQInputs == { in \in TQInputs : in.session_id = "s1" }
FaultTGInputs == { in \in TGInputs : in.gap_data.priority # "low" }

NextFaults ==
    \/ BackendDown
    \/ BackendUp
    \/ Probe("w1")
    \/ \E in \in FaultTQInputs : FaultCallsLeft /\ TQ_Begin("w1", in)
    \/ TQ_Setex("w1")
    \/ TQ_DateKey("w1")
    \/ TQ_Incr("w1")
    \/ TQ_ExpireDaily("w1")
    \/ TQ_LPushTimes("w1")
    \/ TQ_LTrimTimes("w1")
    \/ TQ_ExpireTimes("w1")
    \/ TQ_LPushSucc("w1")
    \/ TQ_LTrimSucc("w1")
    \/ TQ_ExpireSucc("w1")
    \/ \E in \in FaultTGInputs : FaultCallsLeft /\ TG_Begin("w1", in)
    \/ TG_Get("w1")
    \/ TG_Setex("w1")
    \/ TrackRaise("w1")
    \/ GS_Begin("w1")
    \/ GS_Date("w1")
    \/ GS_Get("w1")
    \/ GS_LRangeTimes("w1")
    \/ GS_LRangeSucc("w1")
    \/ GS_Keys("w1")
    \/ GS_Return("w1")
    \/ GS_MemoryReturn("w1")
    \/ GS_Fail("w1")
    \/ \E days \in TrendDays : GT_Begin("w1", days)
    \/ GT_Get("w1")
    \/ \E limit \in Limits : Top_Begin("w1", limit)
    \/ Top_Get("w1")
    \/ Gaps_Begin("w1")
    \/ Gaps_Get("w1")
    \/ ReadRaise("w1")

SpecFaults == InitOne /\ [][NextFaults]_vars

\* Several workers tracking content gaps on the shared store.
NextRace ==
    \/ \E w \in Workers : Probe(w)
    \/ \E w \in Workers, in \in TGInputs : GapsLeft /\ TG_Begin(w, in)
    \/ \E w \in Workers : TG_Get(w)
    \/ \E w \in Workers : TG_Setex(w)
    \/ \E w \in Workers : Gaps_Begin(w)
    \/ \E w \in Workers : Gaps_Get(w)

\* Workers forked from one parent share its hash seed.
InitRace == Init /\ seed["w1"] = seed["w2"]

SpecRace == InitRace /\ [][NextRace]_vars

\* Several workers, each started on its own or forked: every assignment of
\* hash seeds to the worker processes.  The empty text is among the texts
\* sighted.
SeedInputs == TGInputs \cup {[query |-> "", gap_data |-> [priority |-> "urgent"]]}

NextSeeds ==
    \/ \E w \in Workers : Probe(w)
    \/ \E w \in Workers, in \in SeedInputs : GapsLeft /\ TG_Begin(w, in)
    \/ \E w \in Workers : TG_Get(w)
    \/ \E w \in Workers : TG_Setex(w)
    \/ \E w \in Workers : Gaps_Begin(w)
    \/ \E w \in Workers : Gaps_Get(w)

SpecSeeds == Init /\ [][NextSeeds]_vars

\* Two engines given the same calls at the same instants: w1 on the store,
\* w2 on the fallback (built while the store was unreachable).  A call runs
\* on w1, then on w2, before the clock moves or the next call begins.
LastCall == hist[Len(hist)]
InSync ==
    /\ mode["w1"] = "persistent" /\ mode["w2"] = "degraded" /\ up
    /\ pc["w1"] = Idle /\ pc["w2"] = Idle
    /\ hist # <<>> => LastCall.worker = "w2"
ToReplay(op) ==
    /\ pc["w1"] = Idle /\ hist # <<>>
    /\ LastCall.worker = "w1" /\ LastCall.op = op
PairCallsLeft == nTQ + nTG < 2 * MaxPairCalls

NextPair ==
    \/ mode["w1"] = "uninit" /\ up /\ Probe("w1")
    \/ mode["w1"] = "persistent" /\ mode["w2"] = "uninit" /\ BackendDown
    \/ mode["w1"] = "persistent" /\ ~up /\ Probe("w2")
    \/ mode["w2"] = "degraded" /\ BackendUp
    \/ InSync /\ ClockLeft /\ Tick
    \/ \E in \in TQInputs : InSync /\ PairCallsLeft /\ TQ_Begin("w1", in)
    \/ TQ_Setex("w1")
    \/ TQ_DateKey("w1")
    \/ TQ_Incr("w1")
    \/ TQ_ExpireDaily("w1")
    \/ TQ_LPushTimes("w1")
    \/ TQ_LTrimTimes("w1")
    \/ TQ_ExpireTimes("w1")
    \/ TQ_LPushSucc("w1")
    \/ TQ_LTrimSucc("w1")
    \/ TQ_ExpireSucc("w1")
    \/ ToReplay("track_query") /\ TQ_Begin("w2", LastCall.query_data)
    \/ \E in \in TGInputs : InSync /\ PairCallsLeft /\ TG_Begin("w1", in)
    \/ TG_Get("w1")
    \/ TG_Setex("w1")
    \/ ToReplay("track_content_gap") /\ TG_Begin("w2", LastCall.gap_record)

InitPair == InitOne /\ up

SpecPair == InitPair /\ [][NextPair]_vars

\* One engine tracking queries while the clock runs over the whole window of
\* the summary.
WeekClockLeft == NextInstant(now) <= MaxWeekDay * DAY
WeekQueriesLeft == nTQ < MaxWeekTQ

NextWeek ==
    \/ WeekClockLeft /\ Tick
    \/ Probe("w1")
    \/ \E in \in FaultTQInputs : WeekQueriesLeft /\ TQ_Begin("w1", in)
    \/ TQ_Setex("w1")
    \/ TQ_DateKey("w1")
    \/ TQ_Incr("w1")
    \/ TQ_ExpireDaily("w1")
    \/ TQ_LPushTimes("w1")
    \/ TQ_LTrimTimes("w1")
    \/ TQ_ExpireTimes("w1")
    \/ TQ_LPushSucc("w1")
    \/ TQ_LTrimSucc("w1")
    \/ TQ_ExpireSucc("w1")
    \/ GS_Begin("w1")
    \/ GS_Date("w1")
    \/ GS_Get("w1")
    \/ GS_LRangeTimes("w1")
    \/ GS_LRangeSucc("w1")
    \/ GS_Keys("w1")
    \/ GS_Return("w1")
    \/ GS_MemoryReturn("w1")
    \/ GT_Begin("w1", DEFAULT_TRENDS_DAYS)
    \/ GT_Get("w1")

SpecWeek == InitOne /\ [][NextWeek]_vars

\* One engine tracking queries of several texts, the empty text among them,
\* and ranking them, all within one instant of the clock.
TopTexts == {"", "what is X", "Need a hotel tonight", "best budget trip", "Food COST"}
TopInputs ==
    { [session_id |-> "s1", query |-> "what is X", response_time_ms |-> 160, success |-> TRUE],
      [session_id |-> "s2", query |-> "what is X", response_time_ms |-> 160, success |-> TRUE],
      [session_id |-> "s1", query |-> "Need a hotel tonight", response_time_ms |-> 160, success |-> TRUE],
      [session_id |-> "s3", query |-> "best budget trip", response_time_ms |-> 160, success |-> TRUE],
      [session_id |-> "s2", query |-> "", response_time_ms |-> 160, success |-> TRUE],
      [session_id |-> "s3", query |-> "Food COST", response_time_ms |-> 160, success |-> TRUE] }
TopLimits == (-1..MaxLimit) \cup {DEFAULT_LIMIT}
TopQueriesLeft == nTQ < MaxTopTQ

NextTop ==
    \/ Probe("w1")
    \/ \E in \in TopInputs : TopQueriesLeft /\ TQ_Begin("w1", in)
    \/ TQ_Setex("w1")
    \/ TQ_DateKey("w1")
    \/ TQ_Incr("w1")
    \/ TQ_ExpireDaily("w1")
    \/ TQ_LPushTimes("w1")
    \/ TQ_LTrimTimes("w1")
    \/ TQ_ExpireTimes("w1")
    \/ TQ_LPushSucc("w1")
    \/ TQ_LTrimSucc("w1")
    \/ TQ_ExpireSucc("w1")
    \/ \E limit \in TopLimits : Top_Begin("w1", limit)
    \/ Top_Get("w1")

SpecTop == InitOne /\ [][NextTop]_vars

\* One engine tracking content gaps of every priority, an unknown one and a
\* missing one among them, and ranking them.
RankInputs ==
    { [query |-> "what is X", gap_data |-> [priority |-> "low"]],
      [query |-> "Need a hotel tonight", gap_data |-> [priority |-> "high"]],
      [query |-> "best budget trip", gap_data |-> [priority |-> "medium"]],
      [query |-> "Food COST", gap_data |-> [priority |-> "medium"]],
      [query |-> "", gap_data |-> [priority |-> "urgent"]],
      [query |-> "what is X", gap_data |-> [topic |-> "pricing"]] }
RankGapsLeft == nTG < MaxRankTG

NextRank ==
    \/ Probe("w1")
    \/ \E in \in RankInputs : RankGapsLeft /\ TG_Begin("w1", in)
    \/ TG_Get("w1")
    \/ TG_Setex("w1")
    \/ Gaps_Begin("w1")
    \/ Gaps_Get("w1")

SpecRank == InitOne /\ [][NextRank]_vars

\* Several workers tracking queries on a store that already holds the 1000
\* queries an earlier process tracked today, one a second: the rolling
\* sequences of the day are full.
EarlierQuery(t) ==
    QueryData([session_id |-> "s1", query |-> "what is X",
               response_time_ms |-> 160, success |-> TRUE], t)
FullStore ==
    [query |-> [k \in { <<"s1", t>> : t \in 0..SAMPLE_LAST } |->
                   Entry(EarlierQuery(k[2]), k[2] + QUERY_TTL)],
     daily_queries |-> [d \in {0} |-> Entry(SAMPLE_LAST + 1, SAMPLE_LAST + DAILY_TTL)],
     response_times |-> [d \in {0} |->
                           Entry([i \in 1..(SAMPLE_LAST + 1) |-> 160], SAMPLE_LAST + SAMPLE_TTL)],
     success_rate |-> [d \in {0} |->
                         Entry([i \in 1..(SAMPLE_LAST + 1) |-> 1], SAMPLE_LAST + SAMPLE_TTL)],
     content_gap |-> EmptyKeyspace]

InitFull ==
    /\ now = SAMPLE_LAST + 1
    /\ up = TRUE
    /\ redis = FullStore
    /\ mode = [w \in Workers |-> "uninit"]
    /\ seed = [w \in Workers |-> 1]
    /\ mem = [w \in Workers |-> EmptyMemory]
    /\ pc = [w \in Workers |-> Idle]
    /\ loc = [w \in Workers |-> None]
    /\ ret = [w \in Workers |-> NoRet]
    /\ nTQ = 0
    /\ nTG = 0
    /\ hist = <<>>
    /\ llm = Unbuilt

FullQueriesLeft == nTQ < MaxFullTQ

NextFull ==
    \/ \E w \in Workers : Probe(w)
    \/ \E w \in Workers, in \in FaultTQInputs : FullQueriesLeft /\ TQ_Begin(w, in)
    \/ \E w \in Workers : TQ_Setex(w)
    \/ \E w \in Workers : TQ_DateKey(w)
    \/ \E w \in Workers : TQ_Incr(w)
    \/ \E w \in Workers : TQ_ExpireDaily(w)
    \/ \E w \in Workers : TQ_LPushTimes(w)
    \/ \E w \in Workers : TQ_LTrimTimes(w)
    \/ \E w \in Workers : TQ_ExpireTimes(w)
    \/ \E w \in Workers : TQ_LPushSucc(w)
    \/ \E w \in Workers : TQ_LTrimSucc(w)
    \/ \E w \in Workers : TQ_ExpireSucc(w)

SpecFull == InitFull /\ [][NextFull]_vars

\* One engine tracking queries one after the other within one day, on a
\* store that is empty or already holds the day's 1000 queries.
InitRoll ==
    /\ now = SAMPLE_LAST + 1
    /\ up = TRUE
    /\ redis \in {EmptyStore, FullStore}
    /\ mode = [w \in Workers |-> "uninit"]
    /\ seed = [w \in Workers |-> 1]
    /\ mem = [w \in Workers |-> EmptyMemory]
    /\ pc = [w \in Workers |-> Idle]
    /\ loc = [w \in Workers |-> None]
    /\ ret = [w \in Workers |-> NoRet]
    /\ nTQ = 0
    /\ nTG = 0
    /\ hist = <<>>
    /\ llm = Unbuilt

RollQueriesLeft == nTQ < MaxRollTQ

NextRoll ==
    \/ Probe("w1")
    \/ \E in \in TQInputs : RollQueriesLeft /\ TQ_Begin("w1", in)
    \/ TQ_Setex("w1")
    \/ TQ_DateKey("w1")
    \/ TQ_Incr("w1")
    \/ TQ_ExpireDaily("w1")
    \/ TQ_LPushTimes("w1")
    \/ TQ_LTrimTimes("w1")
    \/ TQ_ExpireTimes("w1")
    \/ TQ_LPushSucc("w1")
    \/ TQ_LTrimSucc("w1")
    \/ TQ_ExpireSucc("w1")

SpecRoll == InitRoll /\ [][NextRoll]_vars

\* One engine tracking content gaps while the clock runs over the lifetime of
\* a gap record.
SlideClockLeft == NextInstant(now) <= MaxSlideDay * DAY
SlideGapsLeft == nTG < MaxSlideTG

NextSlide ==
    \/ SlideClockLeft /\ Tick
    \/ Probe("w1")
    \/ \E in \in FaultTGInputs : SlideGapsLeft /\ TG_Begin("w1", in)
    \/ TG_Get("w1")
    \/ TG_Setex("w1")

SpecSlide == InitOne /\ [][NextSlide]_vars

\* One engine counting its gap records, by both reads, while the clock runs
\* over the lifetime of the records sighted on the first day.
CountClockLeft == NextInstant(now) <= MaxCountDay * DAY
CountGapsLeft == nTG < MaxCountTG /\ now < DAY

NextCount ==
    \/ CountClockLeft /\ Tick
    \/ Probe("w1")
    \/ \E in \in FaultTGInputs : CountGapsLeft /\ TG_Begin("w1", in)
    \/ TG_Get("w1")
    \/ TG_Setex("w1")
    \/ GS_Begin("w1")
    \/ GS_Date("w1")
    \/ GS_Get("w1")
    \/ GS_LRangeTimes("w1")
    \/ GS_LRangeSucc("w1")
    \/ GS_Keys("w1")
    \/ GS_Return("w1")
    \/ GS_MemoryReturn("w1")
    \/ Gaps_Begin("w1")
    \/ Gaps_Get("w1")

SpecCount == InitOne /\ [][NextCount]_vars

(***************************************************************************)
(* LLMService.generate_response: an async generator.  llm.yielded is the   *)
(* sequence of chunks its caller has received so far.  A chunk is the dict *)
(* the code yields: provider = NoProvider and error = FALSE stand for a    *)
(* dict without that key; response_time_ms is left out.  The text of a     *)
(* chunk is one of three: a piece of the answer, the empty string of the   *)
(* closing chunk of a stream, the apology.                                 *)
(*                                                                         *)
(* The generator runs while its caller awaits the next chunk, and stands   *)
(* still at a yield while the caller runs.  llm.pc says where it is:       *)
(* created and not yet asked for a chunk (created, llm.started is false    *)
(* until its body begins to run),                                          *)
(* awaiting create() (p_create) or the next piece of the stream            *)
(* (p_stream), suspended at the yield of a piece (p_yield), of a done      *)
(* chunk (p_done) or of the apology (error_yield), or finished: by return  *)
(* (returned), by an exception that left it (raised, llm.exc says which)   *)
(* or closed by its caller (closed).                                       *)
(***************************************************************************)
Providers == {"groq", "openai"}
NoProvider == "absent"
Apology == "I'm sorry, I'm experiencing technical difficulties. Please try again later."

\* What can be raised at an await or thrown in at a yield: an Exception, or
\* a BaseException that is none (asyncio.CancelledError when the awaiting
\* task is cancelled; KeyboardInterrupt and SystemExit go the same way).
Raisable == {"Exception", "CancelledError"}

\* except Exception: which of them the handlers of lines 52, 61 catch.
Caught(exc) == exc = "Exception"

ContentChunk(p) == [chunk |-> "text", done |-> FALSE, provider |-> p, error |-> FALSE]

FinalChunk(p, stream) ==
    [chunk |-> IF stream THEN "" ELSE "text", done |-> TRUE, provider |-> p, error |-> FALSE]

ErrorChunk == [chunk |-> Apology, done |-> TRUE, provider |-> NoProvider, error |-> TRUE]

\* __init__: a client is built for each provider whose API key is set.
LLM_Init(groq_key, openai_key) ==
    /\ llm.pc = "unbuilt"
    /\ llm' = [llm EXCEPT !.pc = "idle", !.groq_client = groq_key,
                          !.openai_client = openai_key]
    /\ UNCHANGED <<now, up, redis, mode, seed, mem, pc, loc, ret, nTQ, nTG, hist>>

ClientOf(p) == IF p = "groq" THEN llm.groq_client ELSE llm.openai_client

\* The call: it makes the generator, nothing of its body runs before the
\* caller asks for the first chunk.
Gen_Begin(stream) ==
    /\ llm.pc = "idle"
    /\ llm' = [llm EXCEPT !.pc = "created", !.stream = stream]
    /\ UNCHANGED <<now, up, redis, mode, seed, mem, pc, loc, ret, nTQ, nTG, hist>>

\* if self.groq_client is not None / if self.openai_client is not None
SkipTo(p) == IF p = "groq" THEN "try_openai" ELSE "both_failed"

Gen_Try(p) ==
    /\ llm.pc = "try_" \o p
    /\ llm' = IF ClientOf(p)
              THEN [llm EXCEPT !.pc = p \o "_create", !.attempted = Append(@, p)]
              ELSE [llm EXCEPT !.pc = SkipTo(p)]
    /\ UNCHANGED <<now, up, redis, mode, seed, mem, pc, loc, ret, nTQ, nTG, hist>>

\* A variant whose handlers let the provider's exception leave the generator.
OnProviderErrorUncaught(p, exc) == "raised"

\* except Exception in generate_response: Groq's failure falls through to
\* the OpenAI attempt, OpenAI's to the error chunk.  What the handlers do
\* not catch leaves the generator.
OnProviderError(p, exc) == IF Caught(exc) THEN SkipTo(p) ELSE "raised"

\* exc raised inside the try block of provider p.
Fail(p, exc) ==
    LET next == OnProviderError(p, exc)
    IN  [llm EXCEPT !.pc = next,
                    !.failed = IF Caught(exc) THEN @ \cup {p} ELSE @,
                    !.exc = IF next = "raised" THEN exc ELSE @]

\* yield of the chunk with done True: the generator stands at the yield.
YieldDone(p) ==
    [llm EXCEPT !.pc = p \o "_done", !.yielded = Append(@, FinalChunk(p, llm.stream)),
                !.completed = @ \cup {p}]

\* await client.chat.completions.create(...): it answers, and a
\* non-streamed answer is yielded whole as the one chunk, done; or it
\* raises; or the awaiting task is cancelled and CancelledError is raised
\* at the await.
CreateOutcomes == {"answers"} \cup Raisable

Provider_Create(p, outcome) ==
    /\ llm.pc = p \o "_create"
    /\ llm' = IF outcome \in Raisable THEN Fail(p, outcome)
              ELSE IF llm.stream THEN [llm EXCEPT !.pc = p \o "_stream"]
              ELSE YieldDone(p)
    /\ UNCHANGED <<now, up, redis, mode, seed, mem, pc, loc, ret, nTQ, nTG, hist>>

\* async for chunk in response: the stream delivers a piece of content,
\* which is yielded; or ends, and the closing chunk is yielded; or raises
\* (the task's cancellation included).
Provider_StreamContent(p) ==
    /\ llm.pc = p \o "_stream"
    /\ llm' = [llm EXCEPT !.pc = p \o "_yield", !.yielded = Append(@, ContentChunk(p))]
    /\ UNCHANGED <<now, up, redis, mode, seed, mem, pc, loc, ret, nTQ, nTG, hist>>

Provider_StreamEnd(p) ==
    /\ llm.pc = p \o "_stream"
    /\ llm' = YieldDone(p)
    /\ UNCHANGED <<now, up, redis, mode, seed, mem, pc, loc, ret, nTQ, nTG, hist>>

Provider_StreamError(p, exc) ==
    /\ llm.pc = p \o "_stream"
    /\ llm' = Fail(p, exc)
    /\ UNCHANGED <<now, up, redis, mode, seed, mem, pc, loc, ret, nTQ, nTG, hist>>

\* Both providers failed
Gen_BothFailed ==
    /\ llm.pc = "both_failed"
    /\ llm' = [llm EXCEPT !.pc = "error_yield", !.yielded = Append(@, ErrorChunk)]
    /\ UNCHANGED <<now, up, redis, mode, seed, mem, pc, loc, ret, nTQ, nTG, hist>>

\* The generator is suspended at a yield inside the try block of provider p.
AtYieldOf(p) == llm.pc \in {p \o "_yield", p \o "_done"}
AtYield == llm.pc = "error_yield" \/ \E p \in Providers : AtYieldOf(p)

\* The generator is finished: by return, by an exception that left it, or
\* closed.  Whatever its caller asks of it then changes nothing.
GenEnded == llm.pc \in {"returned", "raised", "closed"}

\* __anext__: the caller's async for asks for the next chunk.  The first
\* one starts the body (lines 44-47).  After a piece the stream is awaited
\* again; after a done chunk the provider's generator ends and
\* generate_response returns (lines 51, 60); after the apology it runs off
\* its end.  A finished generator answers StopAsyncIteration.
Gen_Anext ==
    /\ llm.pc = "created" \/ AtYield \/ GenEnded
    /\ llm' = IF llm.pc = "created"
              THEN [llm EXCEPT !.pc = "try_groq", !.started = TRUE]
              ELSE IF GenEnded THEN llm
              ELSE IF \E p \in Providers : llm.pc = p \o "_yield"
              THEN [llm EXCEPT !.pc = (CHOOSE p \in Providers : llm.pc = p \o "_yield")
                                         \o "_stream"]
              ELSE [llm EXCEPT !.pc = "returned"]
    /\ UNCHANGED <<now, up, redis, mode, seed, mem, pc, loc, ret, nTQ, nTG, hist>>

\* aclose(), by the caller or when the abandoned generator is finalized.
\* A generator that has not started is closed without running its body;
\* at a yield GeneratorExit is raised, which no handler catches.
Gen_Aclose ==
    /\ llm.pc = "created" \/ AtYield \/ GenEnded
    /\ llm' = IF GenEnded THEN llm ELSE [llm EXCEPT !.pc = "closed"]
    /\ UNCHANGED <<now, up, redis, mode, seed, mem, pc, loc, ret, nTQ, nTG, hist>>

\* athrow(exc).  On a generator that has not started exc goes back to the
\* caller at once and the generator is finished.  At a yield exc is raised
\* there: the yields of lines 50 and 59 stand inside the try blocks, the
\* yield of line 65 in none.
Gen_Athrow(exc) ==
    /\ llm.pc = "created" \/ AtYield \/ GenEnded
    /\ llm' = IF GenEnded THEN llm
              ELSE IF llm.pc \in {"created", "error_yield"}
              THEN [llm EXCEPT !.pc = "raised", !.exc = exc]
              ELSE Fail(CHOOSE p \in Providers : AtYieldOf(p), exc)
    /\ UNCHANGED <<now, up, redis, mode, seed, mem, pc, loc, ret, nTQ, nTG, hist>>

\* The pieces of content provider p has streamed in this call.
Streamed(p) ==
    Cardinality({ i \in DOMAIN llm.yielded :
                    llm.yielded[i].provider = p /\ ~llm.yielded[i].done })
ChunksLeft(p) == Streamed(p) < MaxChunks

\* The steps of a call whose caller iterates it: the providers answering,
\* streaming and failing at any point, the caller asking for the next chunk.
GenStep ==
    \/ \E p \in Providers : Gen_Try(p)
    \/ \E p \in Providers, outcome \in CreateOutcomes : Provider_Create(p, outcome)
    \/ \E p \in Providers : ChunksLeft(p) /\ Provider_StreamContent(p)
    \/ \E p \in Providers : Provider_StreamEnd(p)
    \/ \E p \in Providers, exc \in Raisable : Provider_StreamError(p, exc)
    \/ Gen_BothFailed
    \/ Gen_Anext

\* One service and one call of generate_response by a caller that iterates
\* it with async for, as the endpoints of main.py do (lines 80, 100), or
\* abandons it.
NextGen ==
    \/ \E groq_key, openai_key \in BOOLEAN : LLM_Init(groq_key, openai_key)
    \/ \E stream \in BOOLEAN : Gen_Begin(stream)
    \/ \E p \in Providers : Gen_Try(p)
    \/ \E p \in Providers, outcome \in CreateOutcomes : Provider_Create(p, outcome)
    \/ \E p \in Providers : ChunksLeft(p) /\ Provider_StreamContent(p)
    \/ \E p \in Providers : Provider_StreamEnd(p)
    \/ \E p \in Providers, exc \in Raisable : Provider_StreamError(p, exc)
    \/ Gen_BothFailed
    \/ Gen_Anext
    \/ Gen_Aclose

\* The same with a caller that also throws into the generator.
NextGenThrow ==
    \/ NextGen
    \/ \E exc \in Raisable : Gen_Athrow(exc)

InitGen == Init /\ up /\ seed = [w \in Workers |-> 1]

SpecGen == InitGen /\ [][NextGen]_vars

SpecGenThrow == InitGen /\ [][NextGenThrow]_vars

\* The event loop resumes the generator whenever the awaited provider has
\* answered, streamed or failed, the provider's client does one of the
\* three in bounded time, and the caller's async for asks for every chunk.
SpecGenLive == InitGen /\ [][NextGen]_vars /\ WF_vars(GenStep)

(***************************************************************************)
(* What the history and the stores say, for the claims below.              *)
(***************************************************************************)
Ready(w) == pc[w] = Idle /\ mode[w] # "uninit"

\* The track_query calls of worker w that returned, stamped on day d.
TrackedOn(w, d) ==
    { i \in DOMAIN hist : /\ hist[i].op = "track_query"
                          /\ hist[i].worker = w
                          /\ DayOf(hist[i].query_data.timestamp) = d }

\* The track_content_gap calls of worker w on query q that returned.
Sightings(w, q) ==
    { i \in DOMAIN hist : /\ hist[i].op = "track_content_gap"
                          /\ hist[i].worker = w
                          /\ hist[i].gap_record.query = q }

\* The gap records worker w's backend holds, by key.
GapStore(w) ==
    IF mode[w] = "persistent"
    THEN [k \in KEYS(redis.content_gap) |-> redis.content_gap[k].val]
    ELSE [k \in DictKeys(mem[w].content_gaps) |-> DictGet(mem[w].content_gaps, k)]

GapKeysFor(w, q) == { k \in DOMAIN GapStore(w) : GapStore(w)[k].query = q }

(***************************************************************************)
(* What a read handler called in this state returns when the clock and the *)
(* store stand still until it returns: each command replies from the store *)
(* as it is, each reading of the clock gives now.  order is the order in   *)
(* which KEYS lists the keys.                                              *)
(***************************************************************************)
ReadOps == {"get_analytics_summary", "get_query_trends", "get_top_queries", "get_content_gaps"}

QuietSummary(w) ==
    IF mode[w] = "persistent"
    THEN RedisAnalytics(
             SumSeq([n \in 1..SUMMARY_DAYS |-> RedisDailyCount(redis, MinusDays(now, n - 1))]),
             LRANGE_ALL(redis.response_times, DayOf(now)),
             LRANGE_ALL(redis.success_rate, DayOf(now)),
             KEYS(redis.content_gap), now)
    ELSE MemoryAnalytics(mem[w], MinusDays(now, SUMMARY_DAYS), now)

QuietTrends(w, days) ==
    QueryTrends([n \in 1..days |->
                   LET date == MinusDays(now, n - 1)
                   IN  TrendEntry(date, DailyCount(w, date))])

QuietOrders(w, ks) == IF mode[w] = "persistent" THEN ScanOrders(ks) ELSE {<<>>}

QuietTopQueries(w, limit, order) ==
    IF mode[w] = "persistent"
    THEN TopQueriesOf([i \in DOMAIN order |-> ScanGet(redis.query, order[i])], limit)
    ELSE TopQueriesOf(mem[w].queries, limit)

QuietContentGaps(w, order) ==
    IF mode[w] = "persistent"
    THEN ContentGapsOf([i \in DOMAIN order |-> ScanGet(redis.content_gap, order[i])])
    ELSE ContentGapsOf(DictValues(mem[w].content_gaps))

\* A result a read handler returned from a call during which neither the
\* clock nor the store moved.
QuietResult(w, op) ==
    /\ ret[w].op = op /\ ret[w].status = "ok" /\ ~ret[w].fault /\ ret[w].quiet

\* With one caller, a quiet result is what the handler returns in the state
\* the caller is left in.
QuietCallsAgree ==
    \A w \in Workers :
        /\ QuietResult(w, "get_analytics_summary") => ret[w].value = QuietSummary(w)
        /\ (QuietResult(w, "get_query_trends") /\ ret[w].arg >= 1) =>
              ret[w].value = QuietTrends(w, ret[w].arg)
        /\ QuietResult(w, "get_top_queries") =>
              \E order \in QuietOrders(w, redis.query) :
                  ret[w].value = QuietTopQueries(w, ret[w].arg, order)
        /\ QuietResult(w, "get_content_gaps") =>
              \E order \in QuietOrders(w, redis.content_gap) :
                  ret[w].value = QuietContentGaps(w, order)

(***************************************************************************)
(* C1.  With no concurrent caller, every track_query call that returned    *)
(* raised by one the daily count of the day stamped on its event, and      *)
(* dailyCount shows it at once: between calls, each day's dailyCount is    *)
(* the number of returned calls whose event is stamped on that day.        *)
(* Violated: the persistent branch takes the counter's day from a second   *)
(* reading of the clock.                                                   *)
(***************************************************************************)
C1_CountedOnTheEventsDay ==
    \A w \in Workers :
        Ready(w) =>
            \A d \in 0..MaxDay : DailyCount(w, d * DAY) = Cardinality(TrackedOn(w, d))

(***************************************************************************)
(* C2.  After N sequential track_content_gap calls on q there is one       *)
(* record for q, its frequency is N, and from the second call on it        *)
(* carries a last_seen that is no earlier than the call before.            *)
(* Violated: the fallback branch never writes last_seen.                   *)
(***************************************************************************)
C2_FrequencyAndLastSeen ==
    \A w \in Workers, q \in Queries :
        LET calls == Sightings(w, q)
            n == Cardinality(calls)
            last == CHOOSE i \in calls : \A j \in calls : j <= i
            before == CHOOSE i \in calls \ {last} : \A j \in calls \ {last} : j <= i
        IN  (Ready(w) /\ n >= 1) =>
                /\ Cardinality(GapKeysFor(w, q)) = 1
                /\ \A k \in GapKeysFor(w, q) :
                      /\ GapStore(w)[k].frequency = n
                      /\ n >= 2 =>
                            /\ GapStore(w)[k].last_seen # Absent
                            /\ GapStore(w)[k].last_seen >= hist[before].gap_record.timestamp

(***************************************************************************)
(* C4.  get_query_trends(days), days >= 1, returns days entries of         *)
(* consecutive dates, oldest first.  When the clock and the store stand    *)
(* still during the call, the dates are today and the days - 1 days before *)
(* it and each entry's queries is dailyCount of its date.  (A call during  *)
(* which the clock moves takes its dates from the one reading it made when *)
(* it began.)                                                              *)
(***************************************************************************)
C4_TrendsWindow ==
    \A w \in Workers :
        (ret[w].op = "get_query_trends" /\ ret[w].status = "ok" /\ ret[w].arg >= 1) =>
            LET days == ret[w].arg
                trends == ret[w].value
            IN  /\ Len(trends) = days
                /\ \A i \in 1..(days - 1) : trends[i + 1].date = trends[i].date + 1
                /\ ret[w].quiet =>
                      \A i \in 1..days :
                          /\ trends[i].date = DayOf(now) - (days - i)
                          /\ trends[i].queries = DailyCount(w, MinusDays(now, days - i))

\* A week's trends read from the store while clock and store stood still,
\* with queries tracked yesterday and none before.
C4_Witness ==
    /\ QuietResult("w1", "get_query_trends") /\ ret["w1"].arg = DEFAULT_TRENDS_DAYS
    /\ mode["w1"] = "persistent"
    /\ ret["w1"].value[DEFAULT_TRENDS_DAYS - 1].queries >= 1
    /\ ret["w1"].value[1].queries = 0

(***************************************************************************)
(* C5.  One successful track_query on an empty store, then                 *)
(* get_analytics_summary on the same day: total_queries is 1, success_rate *)
(* is 100.0 and average_response_time_ms is the query's response time      *)
(* rounded by round() (120.5 gives 120).                                   *)
(***************************************************************************)
C5_SingleQuerySummary ==
    \A w \in Workers :
        ( /\ ret[w].op = "get_analytics_summary"
          /\ nTQ = 1 /\ Len(hist) = 1
          /\ hist[1].query_data.success
          /\ DayOf(hist[1].query_data.timestamp) = DayOf(now) ) =>
            /\ ret[w].value.total_queries = 1
            /\ ret[w].value.success_rate = 1000
            /\ ret[w].value.average_response_time_ms
                 = PyRound(hist[1].query_data.response_time_ms, 2)

\* The summary after track_query("s1", "what is X", 120.5, true) on the store.
C5_Witness ==
    /\ ret["w1"].op = "get_analytics_summary"
    /\ mode["w1"] = "persistent"
    /\ nTQ = 1 /\ Len(hist) = 1
    /\ hist[1].query_data.response_time_ms = 241 /\ hist[1].query_data.success
    /\ ret["w1"].value.average_response_time_ms = 120
    /\ ret["w1"].value.success_rate = 1000

(***************************************************************************)
(* C3.  Concurrent track_content_gap calls on one query lose no increment: *)
(* once all K calls on the store have returned, the query has one record   *)
(* and its frequency is K.                                                 *)
(* Violated: two workers read the record before either writes it back.     *)
(***************************************************************************)
C3_NoLostIncrement ==
    \A q \in Queries :
        LET K == Cardinality(UNION { Sightings(w, q) : w \in {v \in Workers : mode[v] = "persistent"} })
            keys == { k \in KEYS(redis.content_gap) : redis.content_gap[k].val.query = q }
        IN  ((\A w \in Workers : pc[w] = Idle) /\ K >= 1) =>
                /\ Cardinality(keys) = 1
                /\ \A k \in keys : redis.content_gap[k].val.frequency = K

(***************************************************************************)
(* C6.  get_analytics_summary never raises; when one of its store commands *)
(* failed it returns the default summary, all four figures 0.              *)
(***************************************************************************)
C6_SummaryFailsToDefault ==
    \A w \in Workers :
        ret[w].op = "get_analytics_summary" =>
            /\ ret[w].status = "ok"
            /\ ret[w].fault =>
                  /\ ret[w].value.total_queries = 0
                  /\ ret[w].value.average_response_time_ms = 0
                  /\ ret[w].value.success_rate = 0
                  /\ ret[w].value.content_gaps_count = 0

\* A summary that failed on a store which holds a day's count.
C6_Witness ==
    /\ ret["w1"].op = "get_analytics_summary" /\ ret["w1"].fault
    /\ mode["w1"] = "persistent"
    /\ KEYS(redis.daily_queries) # {}
    /\ ret["w1"].value.total_queries = 0

(***************************************************************************)
(* C7.  With the store failing after a successful probe, no public         *)
(* operation raises, and a read whose command failed returns a safe        *)
(* default: zero counts, an empty list.                                    *)
(* Violated: only get_analytics_summary catches.                           *)
(***************************************************************************)
C7_NoOperationRaises ==
    \A w \in Workers :
        (mode[w] = "persistent" /\ ~up) =>
            /\ ret[w].status # "raised"
            /\ (ret[w].fault /\ ret[w].op = "get_query_trends") =>
                  /\ Len(ret[w].value) = ret[w].arg
                  /\ \A i \in DOMAIN ret[w].value : ret[w].value[i].queries = 0
            /\ (ret[w].fault /\ ret[w].op \in {"get_top_queries", "get_content_gaps"}) =>
                  ret[w].value = <<>>

(***************************************************************************)
(* C8.  A store command failing during track_query or track_content_gap is *)
(* caught inside the engine: the call returns normally and the endpoint    *)
(* answers {"status": "success"}.                                          *)
(* Violated: neither handler catches, the endpoint answers 500.            *)
(***************************************************************************)
C8_WriteFailureAnswersSuccess ==
    \A w \in Workers :
        ret[w].op \in {"track_query", "track_content_gap"} =>
            /\ ret[w].status = "ok"
            /\ EndpointResponse(ret[w]) = [code |-> 200, body |-> "success"]

(***************************************************************************)
(* C9.  The probe selects the backend once: the store if the probe         *)
(* succeeded, the fallback if it failed.  After that the mode never        *)
(* changes, an engine on the store never touches its fallback storage, and *)
(* with no engine on the store the store is never written.                 *)
(***************************************************************************)
C9_ModeIsFinal ==
    [][\A w \in Workers :
          /\ (mode[w] = "uninit" /\ mode'[w] # "uninit") =>
                mode'[w] = (IF up THEN "persistent" ELSE "degraded")
          /\ mode[w] # "uninit" => mode'[w] = mode[w]
          /\ mode[w] = "persistent" => mem'[w] = mem[w]
          /\ (\A v \in Workers : mode[v] # "persistent") => redis' = redis]_vars

\* The store is reachable again and an engine that chose the fallback has
\* tracked a call there, the store left empty.
C9_Witness ==
    /\ mode["w1"] = "degraded" /\ up
    /\ hist # <<>>
    /\ redis = EmptyStore

(***************************************************************************)
(* C10.  The engine on the store and the engine on the fallback, given the *)
(* same calls at the same instants, return equal results (last_updated     *)
(* aside) from get_analytics_summary, get_query_trends, get_top_queries    *)
(* and get_content_gaps.                                                   *)
(* Violated: the two branches keep different records and compute the       *)
(* summary over different windows.                                         *)
(***************************************************************************)
NoExpiryElapsed ==
    \A i \in DOMAIN hist :
        hist[i].op = "track_query" => now < hist[i].query_data.timestamp + QUERY_TTL

C10_BackendsAgree ==
    (InSync /\ NoExpiryElapsed) =>
        LET onStore == QuietSummary("w1")
            onFallback == QuietSummary("w2")
        IN  /\ onStore.total_queries = onFallback.total_queries
            /\ onStore.average_response_time_ms = onFallback.average_response_time_ms
            /\ onStore.success_rate = onFallback.success_rate
            /\ onStore.content_gaps_count = onFallback.content_gaps_count
            /\ QuietTrends("w1", DEFAULT_TRENDS_DAYS) = QuietTrends("w2", DEFAULT_TRENDS_DAYS)
            /\ \A order \in Orders(KEYS(redis.query)) :
                  QuietTopQueries("w1", DEFAULT_LIMIT, order)
                    = QuietTopQueries("w2", DEFAULT_LIMIT, <<>>)
            /\ \A order \in Orders(KEYS(redis.content_gap)) :
                  QuietContentGaps("w1", order)
                    = QuietContentGaps("w2", <<>>)

(***************************************************************************)
(* C11.  In either backend and in every state, the total_queries of        *)
(* get_analytics_summary equals the sum of the queries fields that         *)
(* get_query_trends(7) returns at the same instant, i.e. the sum of the    *)
(* daily counts of today and the six days before.                          *)
(* Violated: the fallback counts the events of the last 7 x 24 hours, which *)
(* reach into the calendar day seven days back.                            *)
(***************************************************************************)
C11_TotalIsSumOfTrends ==
    \A w \in Workers :
        Ready(w) =>
            LET trends == QuietTrends(w, SUMMARY_DAYS)
            IN  QuietSummary(w).total_queries
                  = SumSeq([i \in DOMAIN trends |-> trends[i].queries])

(***************************************************************************)
(* C12.  In either backend the average_response_time_ms and success_rate   *)
(* of get_analytics_summary are computed from today's samples only: the    *)
(* mean of today's response times and 100 x today's successes / today's    *)
(* samples to one decimal, both 0 with no sample today.  Today's samples   *)
(* are today's rolling sequences on the store, the events stamped today in *)
(* the fallback.                                                           *)
(* Violated: the fallback averages over every event of the last 7 days.    *)
(***************************************************************************)
TodaysTimes(w) ==
    IF mode[w] = "persistent" THEN LRANGE_ALL(redis.response_times, DayOf(now))
    ELSE LET today == SelectSeq(mem[w].queries, LAMBDA q : DayOf(q.timestamp) = DayOf(now))
         IN  [i \in DOMAIN today |-> today[i].response_time_ms]

TodaysFlags(w) ==
    IF mode[w] = "persistent" THEN LRANGE_ALL(redis.success_rate, DayOf(now))
    ELSE LET today == SelectSeq(mem[w].queries, LAMBDA q : DayOf(q.timestamp) = DayOf(now))
         IN  [i \in DOMAIN today |-> IF today[i].success THEN 1 ELSE 0]

C12_StatisticsOfTodayOnly ==
    \A w \in Workers :
        Ready(w) =>
            LET summary == QuietSummary(w)
                times == TodaysTimes(w)
                flags == TodaysFlags(w)
            IN  /\ summary.average_response_time_ms
                     = (IF times = <<>> THEN 0 ELSE PyRound(SumSeq(times), 2 * Len(times)))
                /\ summary.success_rate
                     = (IF flags = <<>> THEN 0 ELSE PyRound(SumSeq(flags) * 1000, Len(flags)))

(***************************************************************************)
(* C13.  get_top_queries returns its entries in descending order of count, *)
(* and entries of equal count in one order, the same on every run over the *)
(* same stored events.                                                     *)
(* Violated: on the store the order of equal counts is the order in which  *)
(* KEYS replies.                                                           *)
(***************************************************************************)
C13_TopOrderDeterministic ==
    \A w \in Workers :
        Ready(w) =>
            \A o1, o2 \in QuietOrders(w, redis.query) :
                LET r1 == QuietTopQueries(w, DEFAULT_LIMIT, o1)
                    r2 == QuietTopQueries(w, DEFAULT_LIMIT, o2)
                IN  /\ \A i, j \in DOMAIN r1 : i < j => r1[i].count >= r1[j].count
                    /\ r1 = r2

(***************************************************************************)
(* C14.  get_top_queries(limit), limit >= 0, returns min(limit, number of  *)
(* distinct non-empty stored texts) entries; an entry's count is the       *)
(* number of stored events with its text, no text appears twice, no        *)
(* omitted text has a larger count than a returned one, and an entry's     *)
(* category is the categorization of its text.                             *)
(***************************************************************************)
StoredCount(w, q) ==
    IF mode[w] = "persistent"
    THEN Cardinality({ k \in KEYS(redis.query) : redis.query[k].val.query = q })
    ELSE Cardinality({ i \in DOMAIN mem[w].queries : mem[w].queries[i].query = q })

StoredTexts(w) == { q \in TopTexts : q # "" /\ StoredCount(w, q) > 0 }

C14_TopQueriesTally ==
    \A w \in Workers :
        (ret[w].op = "get_top_queries" /\ ret[w].status = "ok" /\ ret[w].arg >= 0) =>
            LET top == ret[w].value
                returned == { top[i].query : i \in DOMAIN top }
            IN  /\ Len(top) = Min(ret[w].arg, Cardinality(StoredTexts(w)))
                /\ returned \subseteq StoredTexts(w)
                /\ \A i \in DOMAIN top :
                      /\ top[i].count = StoredCount(w, top[i].query)
                      /\ top[i].category = Categorize(top[i].query)
                /\ \A i, j \in DOMAIN top : i # j => top[i].query # top[j].query
                /\ \A q \in StoredTexts(w) \ returned :
                      \A i \in DOMAIN top : StoredCount(w, q) <= top[i].count

\* A limit of 1 kept the text stored twice and left out a text stored once.
C14_Witness ==
    /\ ret["w1"].op = "get_top_queries" /\ ret["w1"].status = "ok" /\ ret["w1"].arg = 1
    /\ Len(ret["w1"].value) = 1
    /\ ret["w1"].value[1].count = 2
    /\ \E q \in StoredTexts("w1") : q # ret["w1"].value[1].query

(***************************************************************************)
(* C16.  The category of a query text is decided by the text alone: the    *)
(* first rule, in the order Hotels (hotel, accommodation, stay), Tours     *)
(* (tour, trip, travel), Dining (restaurant, food, dining), Pricing        *)
(* (price, cost, budget), one of whose words occurs in the text whatever   *)
(* its case; General if none does.  "best budget trip" is Tours and        *)
(* "Need a hotel tonight" is Hotels.                                       *)
(***************************************************************************)
RuleTable ==
    << [category |-> "Hotels",  words |-> { <<"h","o","t","e","l">>, <<"a","c","c","o","m","m","o","d","a","t","i","o","n">>, <<"s","t","a","y">> }],
       [category |-> "Tours",   words |-> { <<"t","o","u","r">>, <<"t","r","i","p">>, <<"t","r","a","v","e","l">> }],
       [category |-> "Dining",  words |-> { <<"r","e","s","t","a","u","r","a","n","t">>, <<"f","o","o","d">>, <<"d","i","n","i","n","g">> }],
       [category |-> "Pricing", words |-> { <<"p","r","i","c","e">>, <<"c","o","s","t">>, <<"b","u","d","g","e","t">> }] >>

RuleMatches(n, q) ==
    \E word \in RuleTable[n].words : Contains(Lower(Chars(q)), word)

FirstMatch(q) ==
    IF \E n \in DOMAIN RuleTable : RuleMatches(n, q)
    THEN RuleTable[CHOOSE n \in DOMAIN RuleTable :
                      /\ RuleMatches(n, q)
                      /\ \A m \in 1..(n - 1) : ~RuleMatches(m, q)].category
    ELSE "General"

C16_FirstRuleWins ==
    \A w \in Workers :
        (ret[w].op = "get_top_queries" /\ ret[w].status = "ok") =>
            \A i \in DOMAIN ret[w].value :
                LET entry == ret[w].value[i]
                IN  /\ entry.category = FirstMatch(entry.query)
                    /\ entry.query = "best budget trip" => entry.category = "Tours"
                    /\ entry.query = "Need a hotel tonight" => entry.category = "Hotels"

\* A ranking that lists "best budget trip", which matches a Pricing word and
\* a Tours word, and "Food COST", which matches in upper case.
C16_Witness ==
    /\ ret["w1"].op = "get_top_queries" /\ ret["w1"].status = "ok"
    /\ \E i, j \in DOMAIN ret["w1"].value :
          /\ ret["w1"].value[i].query = "best budget trip"
          /\ ret["w1"].value[i].category = "Tours"
          /\ ret["w1"].value[j].query = "Food COST"
          /\ ret["w1"].value[j].category = "Dining"

(***************************************************************************)
(* C15.  get_content_gaps returns every stored gap record exactly once,    *)
(* in descending order of the pair (priority score, frequency), the score  *)
(* being 3 for high, 2 for medium, 1 for low and 1 for a missing or        *)
(* unknown priority: a higher score comes first whatever the frequencies,  *)
(* and among equal scores the higher frequency comes first.                *)
(***************************************************************************)
ScoreOfGap(rec) ==
    IF "priority" \notin DOMAIN rec.gap_data THEN 1
    ELSE CASE rec.gap_data.priority = "high" -> 3
           [] rec.gap_data.priority = "medium" -> 2
           [] OTHER -> 1

C15_GapsRanked ==
    \A w \in Workers :
        (ret[w].op = "get_content_gaps" /\ ret[w].status = "ok") =>
            LET gaps == ret[w].value
                stored == GapStore(w)
            IN  /\ Len(gaps) = Cardinality(DOMAIN stored)
                /\ \A k \in DOMAIN stored : \E i \in DOMAIN gaps : gaps[i] = stored[k]
                /\ \A i, j \in DOMAIN gaps :
                      i < j =>
                          \/ ScoreOfGap(gaps[i]) > ScoreOfGap(gaps[j])
                          \/ /\ ScoreOfGap(gaps[i]) = ScoreOfGap(gaps[j])
                             /\ gaps[i].frequency >= gaps[j].frequency

\* A gap of higher priority listed before a gap seen more often.
C15_Witness ==
    /\ ret["w1"].op = "get_content_gaps" /\ ret["w1"].status = "ok"
    /\ \E i, j \in DOMAIN ret["w1"].value :
          /\ i < j
          /\ ScoreOfGap(ret["w1"].value[i]) > ScoreOfGap(ret["w1"].value[j])
          /\ ret["w1"].value[i].frequency < ret["w1"].value[j].frequency

(***************************************************************************)
(* C17.  In both backends every stored gap record has frequency >= 1 and   *)
(* carries the instant of its first sighting and a last_seen no earlier    *)
(* than it; a record made by a first sighting has frequency 1.             *)
(* Violated: a first sighting stores no last_seen, and the fallback never  *)
(* stores one.                                                             *)
(***************************************************************************)
C17_GapRecordWellFormed ==
    \A w \in Workers :
        \A k \in DOMAIN GapStore(w) :
            LET rec == GapStore(w)[k]
            IN  /\ rec.frequency >= 1
                /\ Cardinality(Sightings(w, rec.query)) = 1 => rec.frequency = 1
                /\ rec.timestamp # Absent
                /\ rec.last_seen # Absent
                /\ rec.last_seen >= rec.timestamp

(***************************************************************************)
(* C18.  In every state of the store, the states between the push and the  *)
(* trim of a track_query and those of interleaved calls from several       *)
(* workers included, each day's response-time sequence and success-flag    *)
(* sequence has at most 1000 elements.                                     *)
(* Violated: the push and the trim are two commands.                       *)
(***************************************************************************)
C18_RollingSequencesBounded ==
    /\ \A d \in KEYS(redis.response_times) : Len(redis.response_times[d].val) <= 1000
    /\ \A d \in KEYS(redis.success_rate) : Len(redis.success_rate[d].val) <= 1000

(***************************************************************************)
(* C19.  On the store every key the engine has written (events, daily      *)
(* counters, rolling sequences, gap records) carries an expiry, also after *)
(* a track_query was cut short by a failing command.  Stated for the       *)
(* states in which no call is running.                                     *)
(* Violated: INCR and LPUSH create their key without expiry, and the       *)
(* EXPIRE that follows is a separate command that may never run.           *)
(***************************************************************************)
AllKeysExpire(ks) == \A k \in KEYS(ks) : ks[k].exp # NoExpiry

C19_EveryKeyExpires ==
    (\A w \in Workers : pc[w] = Idle) =>
        /\ AllKeysExpire(redis.query)
        /\ AllKeysExpire(redis.daily_queries)
        /\ AllKeysExpire(redis.response_times)
        /\ AllKeysExpire(redis.success_rate)
        /\ AllKeysExpire(redis.content_gap)

(***************************************************************************)
(* C20.  On the store, whatever point a track_query has reached, a day's   *)
(* counter is at most the number of events ever stored with a timestamp of *)
(* that day, each rolling sequence of the day has at most as many entries  *)
(* as the counter says, and every read returns a result.                   *)
(* Violated: the counter that is incremented is the one of the day of the  *)
(* second clock reading (line 193), not of the day stamped on the event.   *)
(***************************************************************************)
\* The events worker w has written for day d: by its calls that returned, and
\* by its running call once past the SETEX.
EventsEverStored(w, d) ==
    Cardinality(TrackedOn(w, d))
      + (IF /\ pc[w] \notin {Idle, "tq_setex"}
            /\ loc[w].op = "track_query"
            /\ DayOf(loc[w].query_data.timestamp) = d
         THEN 1 ELSE 0)

C20_OnlyUnderCounts ==
    \A w \in Workers :
        mode[w] = "persistent" =>
            /\ \A d \in 0..(MaxDay + 1) :
                  /\ RedisDailyCount(redis, d * DAY) <= EventsEverStored(w, d)
                  /\ Len(LRANGE_ALL(redis.response_times, d)) <= RedisDailyCount(redis, d * DAY)
                  /\ Len(LRANGE_ALL(redis.success_rate, d)) <= RedisDailyCount(redis, d * DAY)
            /\ ret[w].op \in {"get_analytics_summary", "get_query_trends", "get_top_queries"}
                  => ret[w].status = "ok"

(***************************************************************************)
(* C21.  On the store a gap record's expiry slides: every                  *)
(* track_content_gap, first or repeat sighting, leaves the record with 7   *)
(* days to live from that call, a repeat sighting adding 1 to the          *)
(* frequency it read and a sighting that finds no record starting at 1; a  *)
(* record whose 7 days have passed is gone; and a record leaves the store  *)
(* only by expiry.                                                         *)
(***************************************************************************)
C21_SlidingExpiry ==
    /\ [](\A k \in KEYS(redis.content_gap) :
              /\ redis.content_gap[k].exp > now
              /\ redis.content_gap[k].exp <= now + GAP_TTL)
    /\ [][/\ \A w \in Workers :
                (pc[w] = "tg_setex" /\ pc'[w] = Idle /\ ret'[w].status = "ok") =>
                    LET k == loc[w].gap_key
                    IN  /\ k \in KEYS(redis'.content_gap)
                        /\ redis'.content_gap[k].exp = now + GAP_TTL
                        /\ redis'.content_gap[k].val.frequency
                             = (IF loc[w].existing # None
                                THEN loc[w].existing.frequency + 1 ELSE 1)
          /\ \A k \in KEYS(redis.content_gap) \ KEYS(redis'.content_gap) :
                redis.content_gap[k].exp <= now']_vars

\* A record first sighted at the start of day 0 and sighted again later that
\* day is still there, with frequency 2, seven days after the first sighting.
C21_Witness ==
    /\ mode["w1"] = "persistent"
    /\ now >= GAP_TTL
    /\ \E k \in KEYS(redis.content_gap) :
          /\ redis.content_gap[k].val.timestamp = 0
          /\ redis.content_gap[k].val.frequency = 2


(***************************************************************************)
(* C22.  In persistent mode the increment of the daily counter is atomic:  *)
(* under every interleaving of concurrent track_query calls of several     *)
(* workers on one day, the day's counter is what it was at the start plus  *)
(* one for every call that has run its INCR, so when K calls have          *)
(* completed it is K higher and no increment is lost.                      *)
(***************************************************************************)
PastIncr ==
    {"tq_expire_daily", "tq_lpush_rt", "tq_ltrim_rt", "tq_expire_rt",
     "tq_lpush_sr", "tq_ltrim_sr", "tq_expire_sr"}
Incremented == Len(hist) + Cardinality({w \in Workers : pc[w] \in PastIncr})

C22_NoIncrementLost ==
    /\ DayOf(now) \in KEYS(redis.daily_queries)
    /\ RedisDailyCount(redis, DayOf(now))
         = FullStore.daily_queries[DayOf(now)].val + Incremented
    /\ (\A w \in Workers : pc[w] = Idle) =>
          RedisDailyCount(redis, DayOf(now))
            = FullStore.daily_queries[DayOf(now)].val + Len(hist)

C22_Witness ==
    /\ \A w \in Workers : mode[w] = "persistent" /\ pc[w] = "tq_expire_daily"
    /\ Cardinality(Workers) = 2
    /\ RedisDailyCount(redis, DayOf(now)) = FullStore.daily_queries[DayOf(now)].val + 2


(***************************************************************************)
(* C23.  In either backend, between calls, the content_gaps_count of       *)
(* get_analytics_summary is the number of records get_content_gaps returns *)
(* at the same instant, whatever the order of the scan, and both are the   *)
(* number of gap records that have not expired; a result just returned     *)
(* by either read, from a call during which the clock and the store stood  *)
(* still, shows that number.                                               *)
(***************************************************************************)
LiveGapRecords(w) ==
    IF mode[w] = "persistent"
    THEN { k \in KEYS(redis.content_gap) : redis.content_gap[k].exp > now }
    ELSE DictKeys(mem[w].content_gaps)

C23_GapCountIsListSize ==
    \A w \in Workers : Ready(w) =>
        LET count == QuietSummary(w).content_gaps_count
        IN  /\ count = Cardinality(LiveGapRecords(w))
            /\ \A order \in QuietOrders(w, redis.content_gap) :
                  Len(QuietContentGaps(w, order)) = count
            /\ QuietResult(w, "get_analytics_summary") =>
                  ret[w].value.content_gaps_count = count
            /\ QuietResult(w, "get_content_gaps") =>
                  Len(ret[w].value) = count

C23_Witness ==
    /\ mode["w1"] = "persistent"
    /\ QuietResult("w1", "get_content_gaps")
    /\ Len(ret["w1"].value) = 1
    /\ QuietSummary("w1").content_gaps_count = 1
    /\ \E i, j \in DOMAIN hist :
          /\ hist[i].op = "track_content_gap" /\ hist[j].op = "track_content_gap"
          /\ hist[i].gap_record.query # hist[j].gap_record.query


(***************************************************************************)
(* C24.  A stored query event is immutable and lives for 24 hours on the   *)
(* store: every event key expires within 24 hours, a step never changes    *)
(* the value or the expiry of an event that stays stored, an event leaves  *)
(* the store only when its expiry has come, and in fallback mode the list  *)
(* of events only grows at its end.                                        *)
(***************************************************************************)
C24_EventsKeptUntilExpiry ==
    /\ [](\A k \in KEYS(redis.query) :
              /\ redis.query[k].exp > now
              /\ redis.query[k].exp <= now + QUERY_TTL)
    /\ [][\A k \in KEYS(redis.query) :
              IF k \in KEYS(redis'.query)
              THEN redis'.query[k] = redis.query[k]
              ELSE redis.query[k].exp <= now']_vars
    /\ [][\A w \in Workers :
              /\ Len(mem'[w].queries) >= Len(mem[w].queries)
              /\ SubSeq(mem'[w].queries, 1, Len(mem[w].queries)) = mem[w].queries]_vars

\* The parts of C24 that no second write disturbs: the expiry of every
\* stored event, and the fallback list.
C24_ExpiryAndFallback ==
    /\ [](\A k \in KEYS(redis.query) :
              /\ redis.query[k].exp > now
              /\ redis.query[k].exp <= now + QUERY_TTL)
    /\ [][\A k \in KEYS(redis.query) \ KEYS(redis'.query) :
              redis.query[k].exp <= now']_vars
    /\ [][\A w \in Workers :
              /\ Len(mem'[w].queries) >= Len(mem[w].queries)
              /\ SubSeq(mem'[w].queries, 1, Len(mem[w].queries)) = mem[w].queries]_vars


(***************************************************************************)
(* C25.  Between calls a day's counter on the store is a positive integer  *)
(* that expires within 30 days, dailyCount is the counter's value while    *)
(* the key is there and 0 otherwise, and get_query_trends reports          *)
(* queries = 0 for every day of its window on which no tracked event is    *)
(* stamped.                                                                *)
(***************************************************************************)
C25_CounterAndReads ==
    \A w \in Workers :
        (Ready(w) /\ mode[w] = "persistent") =>
            /\ \A d \in KEYS(redis.daily_queries) :
                  /\ redis.daily_queries[d].val \in Nat
                  /\ redis.daily_queries[d].exp > now
                  /\ redis.daily_queries[d].exp <= now + DAILY_TTL
            /\ \A d \in 0..(MaxDay + 1) :
                  DailyCount(w, d * DAY) =
                      IF d \in KEYS(redis.daily_queries)
                      THEN redis.daily_queries[d].val ELSE 0

C25_UntrackedDayReportsZero ==
    /\ C25_CounterAndReads
    /\ \A w \in Workers :
          Ready(w) =>
              LET trends == QuietTrends(w, DEFAULT_TRENDS_DAYS)
              IN  \A i \in DOMAIN trends :
                      TrackedOn(w, trends[i].date) = {} => trends[i].queries = 0


(***************************************************************************)
(* C26.  A gap record is addressed by the query text alone: once the       *)
(* track_content_gap calls of all the workers on the store have returned   *)
(* (no expiry), every text sighted has exactly one record, whichever       *)
(* worker process sighted it, and the store holds as many gap records as   *)
(* distinct texts were sighted.                                            *)
(***************************************************************************)
OnStore == { w \in Workers : mode[w] = "persistent" }
SightedOnStore == { q \in Queries \cup {""} : \E w \in OnStore : Sightings(w, q) # {} }

C26_OneRecordPerText ==
    (\A w \in Workers : pc[w] = Idle) =>
        /\ \A q \in SightedOnStore :
              Cardinality({ k \in KEYS(redis.content_gap) :
                              redis.content_gap[k].val.query = q }) = 1
        /\ Cardinality(KEYS(redis.content_gap)) = Cardinality(SightedOnStore)


(***************************************************************************)
(* C27.  In persistent mode, after n track_query calls made one after the  *)
(* other on one day, the day's response-time list and success-flag list    *)
(* hold the most recent min(n, 1000) samples, newest first: the samples of *)
(* the calls of this run in reverse order of the calls, then those of the  *)
(* earlier calls of the day, cut at 1000.  The two lists have the same     *)
(* length and the i-th flag is of the same call as the i-th time.          *)
(***************************************************************************)
EarlierCalls == Cardinality({ k \in KEYS(redis.query) : k[2] < SAMPLE_LAST + 1 })

NewestFirst(field(_)) ==
    LET n == Len(hist)
        all == [i \in 1..(n + EarlierCalls) |->
                  IF i <= n THEN field(hist[n + 1 - i].query_data)
                  ELSE field(EarlierQuery(0))]
    IN  SubSeq(all, 1, Min(Len(all), SAMPLE_LAST + 1))

TimeOf(qd) == qd.response_time_ms

C27_RollingSequencesNewestFirst ==
    (Ready("w1") /\ mode["w1"] = "persistent") =>
        LET times == LRANGE_ALL(redis.response_times, DayOf(now))
            flags == LRANGE_ALL(redis.success_rate, DayOf(now))
        IN  /\ times = NewestFirst(TimeOf)
            /\ flags = NewestFirst(SuccessFlag)
            /\ Len(times) = Len(flags)
            /\ Len(times) = Min(Len(hist) + EarlierCalls, SAMPLE_LAST + 1)

\* Two calls on the full store: the lists still hold 1000 samples, the two
\* newest at the head, the later call first.
C27_Witness ==
    /\ Ready("w1") /\ mode["w1"] = "persistent"
    /\ Len(hist) = 2 /\ EarlierCalls = SAMPLE_LAST + 1
    /\ hist[1].query_data.response_time_ms # hist[2].query_data.response_time_ms
    /\ Len(LRANGE_ALL(redis.response_times, DayOf(now))) = SAMPLE_LAST + 1
    /\ LRANGE_ALL(redis.response_times, DayOf(now))[1] = hist[2].query_data.response_time_ms
    /\ LRANGE_ALL(redis.response_times, DayOf(now))[2] = hist[1].query_data.response_time_ms


(***************************************************************************)
(* C28.  The four reads only read: every step of get_analytics_summary,   *)
(* get_query_trends, get_top_queries or get_content_gaps, from the call to *)
(* the return or the exception, leaves every key, value and expiry of the  *)
(* store and the whole fallback memory as they were, in either backend,    *)
(* with or without a failure of the store.                                 *)
(***************************************************************************)
\* The step is one of a read handler of worker w.
ReadStepOf(w) ==
    /\ pc'[w] # pc[w] \/ loc'[w] # loc[w] \/ (ret'[w] # ret[w] /\ ret'[w] # NoRet)
    /\ \/ pc[w] # Idle /\ loc[w].op \in ReadOps
       \/ pc'[w] # Idle /\ loc'[w].op \in ReadOps
       \/ pc[w] = Idle /\ pc'[w] = Idle /\ ret'[w].op \in ReadOps

C28_ReadsChangeNothing ==
    [][\A w \in Workers :
          ReadStepOf(w) =>
              /\ redis' = redis
              /\ mem' = mem
              /\ mode' = mode]_vars

\* A ranking has just been read, key by key, from a store that holds an
\* event, and the event is still there.
C28_Witness ==
    /\ ret["w1"].op = "get_top_queries" /\ ret["w1"].status = "ok"
    /\ ret["w1"].value # <<>>
    /\ mode["w1"] = "persistent" /\ KEYS(redis.query) # {}


(***************************************************************************)
(* C29.  A repeat track_content_gap on a text that has a record changes    *)
(* that record's frequency (plus 1), last_seen and expiry only: the        *)
(* record keeps the query text, the gap_data and the timestamp of the      *)
(* first sighting, and no other gap record, no event, counter, sample list *)
(* or fallback list changes.  In the fallback only the frequency changes.  *)
(***************************************************************************)
OtherKeysKept(old, new, k) ==
    /\ DOMAIN new \ {k} = DOMAIN old \ {k}
    /\ \A x \in DOMAIN old \ {k} : new[x] = old[x]

C29_RepeatKeepsFirstSighting ==
    [][\A w \in Workers :
          /\ (pc[w] = "tg_setex" /\ pc'[w] = Idle /\ ret'[w].status = "ok"
                 /\ loc[w].existing # None) =>
                LET k == loc[w].gap_key
                    old == loc[w].existing
                    new == redis'.content_gap[k].val
                IN  /\ new = [old EXCEPT !.frequency = old.frequency + 1,
                                         !.last_seen = loc[w].gap_record.timestamp]
                    /\ new.query = old.query
                    /\ new.gap_data = old.gap_data
                    /\ new.timestamp = old.timestamp
                    /\ OtherKeysKept(redis.content_gap, redis'.content_gap, k)
                    /\ redis'.query = redis.query
                    /\ redis'.daily_queries = redis.daily_queries
                    /\ redis'.response_times = redis.response_times
                    /\ redis'.success_rate = redis.success_rate
                    /\ mem' = mem
          /\ (mode[w] = "degraded" /\ nTG' = nTG + 1 /\ pc'[w] = Idle
                 /\ Len(mem'[w].content_gaps) = Len(mem[w].content_gaps)) =>
                LET h == HashOf(seed[w], hist'[Len(hist')].gap_record.query)
                    old == DictGet(mem[w].content_gaps, h)
                    new == DictGet(mem'[w].content_gaps, h)
                IN  /\ h \in DictKeys(mem[w].content_gaps)
                    /\ new = [old EXCEPT !.frequency = old.frequency + 1]
                    /\ \A x \in DictKeys(mem[w].content_gaps) \ {h} :
                          DictGet(mem'[w].content_gaps, x) = DictGet(mem[w].content_gaps, x)
                    /\ DictKeys(mem'[w].content_gaps) = DictKeys(mem[w].content_gaps)
                    /\ mem'[w].queries = mem[w].queries
                    /\ redis' = redis]_vars

\* A record sighted again on a later day with other gap_data: it has
\* frequency 2 and still the gap_data and the timestamp of the first
\* sighting.
C29_Witness ==
    /\ Ready("w1") /\ mode["w1"] = "persistent"
    /\ Len(hist) = 2
    /\ hist[1].gap_record.query = hist[2].gap_record.query
    /\ hist[1].gap_record.gap_data # hist[2].gap_record.gap_data
    /\ hist[1].gap_record.timestamp < hist[2].gap_record.timestamp
    /\ \E k \in KEYS(redis.content_gap) :
          /\ redis.content_gap[k].val.frequency = 2
          /\ redis.content_gap[k].val.gap_data = hist[1].gap_record.gap_data
          /\ redis.content_gap[k].val.timestamp = hist[1].gap_record.timestamp
          /\ redis.content_gap[k].val.last_seen = hist[2].gap_record.timestamp


(***************************************************************************)
(* C30.  Every completed track_query stores an event of its own: between   *)
(* calls, while no event has expired, the backend holds as many events as  *)
(* track_query calls have returned, also when two calls carry the same     *)
(* session_id and timestamp, and the counts of get_top_queries add up to   *)
(* the number of returned calls with a non-empty text.                     *)
(***************************************************************************)
CallsOf(w) == { i \in DOMAIN hist : hist[i].op = "track_query" /\ hist[i].worker = w }

EventsStored(w) ==
    IF mode[w] = "persistent" THEN Cardinality(KEYS(redis.query))
    ELSE Len(mem[w].queries)

CountOf(entry) == entry.count

C30_EveryCallStoresItsEvent ==
    \A w \in Workers :
        (Ready(w) /\ NoExpiryElapsed) =>
            /\ EventsStored(w) = Cardinality(CallsOf(w))
            /\ \A order \in QuietOrders(w, redis.query) :
                  LET top == QuietTopQueries(w, DEFAULT_LIMIT, order)
                  IN  SumSeq([i \in DOMAIN top |-> CountOf(top[i])])
                        = Cardinality({ i \in CallsOf(w) : hist[i].query_data.query # "" })

\* The same without two calls of one session at one instant.
DistinctKeys ==
    \A i, j \in DOMAIN hist :
        (i # j /\ hist[i].op = "track_query" /\ hist[j].op = "track_query") =>
            QueryKey(hist[i].query_data) # QueryKey(hist[j].query_data)

C30_HoldsForDistinctKeys ==
    \A w \in Workers :
        (Ready(w) /\ NoExpiryElapsed /\ (mode[w] = "persistent" => DistinctKeys)) =>
            EventsStored(w) = Cardinality(CallsOf(w))


(***************************************************************************)
(* C31.  Every generate_response call that its caller iterates ends, and   *)
(* its chunks hold exactly one chunk with done = true, the last one        *)
(* yielded: no chunk before the last says done, whichever providers are    *)
(* configured and wherever one fails.  When no provider ran to completion  *)
(* the last chunk is the apology with error = true, and no failure of a    *)
(* provider leaves the generator: a call ends by return, or because its    *)
(* caller cancelled or closed it.                                          *)
(***************************************************************************)
DoneChunks == { i \in DOMAIN llm.yielded : llm.yielded[i].done }

C31_OneFinalChunk ==
    /\ [](llm.pc = "raised" => ~Caught(llm.exc))
    /\ [](DoneChunks \subseteq {Len(llm.yielded)})
    /\ [](llm.pc = "returned" =>
            /\ DoneChunks = {Len(llm.yielded)}
            /\ llm.completed = {} => llm.yielded[Len(llm.yielded)] = ErrorChunk)
    /\ (llm.pc \notin {"unbuilt", "idle"}) ~> GenEnded

\* Both providers failed in mid-stream: their pieces, then the apology.
C31_Witness ==
    /\ llm.pc = "returned"
    /\ llm.failed = Providers
    /\ Streamed("groq") >= 1 /\ Streamed("openai") >= 1
    /\ llm.yielded[Len(llm.yielded)] = ErrorChunk

(***************************************************************************)
(* C32.  The providers are tried in a fixed order: Groq first whenever it  *)
(* is configured, OpenAI only if Groq is not configured or raised; the     *)
(* error chunk is yielded only if no provider ran to completion; and all   *)
(* the chunks of a response that carry a provider name the same provider.  *)
(***************************************************************************)
C32_OrderAndErrorChunk ==
    /\ (llm.groq_client /\ llm.started /\ llm.pc # "try_groq") =>
          (llm.attempted # <<>> /\ llm.attempted[1] = "groq")
    /\ (\E i \in DOMAIN llm.attempted : llm.attempted[i] = "openai") =>
          (~llm.groq_client \/ "groq" \in llm.failed)
    /\ (\E i \in DOMAIN llm.yielded : llm.yielded[i] = ErrorChunk) => llm.completed = {}
    /\ llm.completed # {} => llm.pc \in {"groq_done", "openai_done", "returned", "closed"}

ProvidersNamed ==
    { llm.yielded[i].provider : i \in DOMAIN llm.yielded } \ {NoProvider}

C32_OneProviderPerResponse ==
    /\ C32_OrderAndErrorChunk
    /\ Cardinality(ProvidersNamed) <= 1

====
